---- MODULE Spec2Model ----
(***************************************************************************)
(* Model of the Terminal process controller (src/src/helpers/terminal.ts)  *)
(* and of the download transform (src/src/yt-dlp-helper.ts).               *)
(*                                                                         *)
(* Time is in milliseconds.  A timer set with setTimeout(f, d) fires when  *)
(* the clock reaches its deadline: the clock never advances past a pending *)
(* deadline (timers are not late).  A "chunk" is one unit the stdout       *)
(* Readable hands to its consumer, either as a 'data' event or as one item *)
(* of its async iterator.                                                  *)
(***************************************************************************)
EXTENDS Integers, Sequences, FiniteSets, TLC

VARIABLES
    now,            \* Date.now()
    lastRun,        \* Terminal.#lastRun
    runIntervalMS,  \* Terminal.runIntervalMS
    platform,       \* os.platform()
    all,            \* Terminal.#all: identifier -> controller
    calls,          \* the Terminal.new invocations, in order of entry
    terms,          \* the Terminal instances, in order of construction
    lastKill,       \* history: controller whose kill() was the previous step, else 0
    fn,             \* history: the last call of a helper function, its argument and result
    config          \* Config.ytdlpLastDownloadMS and Config.ytdlpDownloadIntervalMS

vars == <<now, lastRun, runIntervalMS, platform, all, calls, terms, lastKill, fn,
          config>>

-----------------------------------------------------------------------------
(* Bounds *)

MaxCalls == 2
MaxTerms == 2
MaxChunks == 2
MaxKills == 2
MaxWaits == 2
MaxTime == 2000

(* Program constants *)

DefaultRunIntervalMS == 500
DefaultTryCount == 10
DefaultRetryIntervalMS == 500
DefaultIntermissionMS == 1000

(* Input sets *)

StartTime == 1000
Delays == {250, 500}
RunIntervals == {250, DefaultRunIntervalMS}
TryCounts == {0, 1, 2}
RetryIntervals == {DefaultRetryIntervalMS}
Intermissions == {DefaultIntermissionMS}
Platforms == {"win32", "linux"}
SpawnOutcomes == {"ok", "enoent", "throw"}
\* the controller scenarios follow one spawn call: controllers share no state
\* but the registry, which the spawn scenarios cover with several of them
CtlCalls == {1}

-----------------------------------------------------------------------------
(* JavaScript values that listen() can yield *)

JSString(s) == [tag |-> "string", str |-> s, stop |-> FALSE, hasData |-> FALSE]
JSNull == [tag |-> "null", str |-> "", stop |-> FALSE, hasData |-> FALSE]
JSObject(stop, hasData, data) ==
    [tag |-> "object", str |-> data, stop |-> stop, hasData |-> hasData]

(* stdout chunks (bytes) and their utf-8 decoding.  "\xE2\x82" is the     *)
(* first two bytes of a three-byte character: it decodes to U+FFFD.       *)
ProgressLine == "[progress] {\"a\":1}"
AlreadyLine == "[download] f has already been downloaded"
OtherLine == "[youtube] extracting"
BadProgressLine == "[progress] {oops"
Chunks == {"b:progress", "b:already", "b:other", "b:E282"}

Decode(bytes) ==
    CASE bytes = "b:progress" -> ProgressLine
      [] bytes = "b:already" -> AlreadyLine
      [] bytes = "b:other" -> OtherLine
      [] bytes = "b:badjson" -> BadProgressLine
      [] bytes = "b:version" -> "2024.08.06\n"
      [] bytes = "b:json" -> "{\"a\":1}"
      [] bytes = "b:null" -> "null"
      [] bytes = "b:jsonhead" -> "{\"a\":"
      [] bytes = "b:jsontail" -> "1}"
      [] bytes = "b:newline" -> "\n"
      [] OTHER -> "U+FFFD"

ALREADY_DOWNLOADED_RE(text) == text = AlreadyLine
DOWNLOAD_PROGRESS_RE(text) == text \in {ProgressLine, BadProgressLine}
ProgressCapture(text) == IF text = ProgressLine THEN "{\"a\":1}" ELSE "{oops"
JSONParse(s) ==
    IF s = "{\"a\":1}" THEN "{a: 1}"
    ELSE IF s = "null" THEN "null" ELSE "SyntaxError"

\* the transform's call ends by throwing e instead of returning a value
JSThrow(e) == [tag |-> "throw", str |-> e, stop |-> FALSE, hasData |-> FALSE]

downloadValueSelector(text) ==
    IF ALREADY_DOWNLOADED_RE(text) THEN JSObject(TRUE, FALSE, "")
    ELSE IF ~DOWNLOAD_PROGRESS_RE(text) THEN JSNull
    ELSE LET v == JSONParse(ProgressCapture(text))
         IN  IF v = "SyntaxError" THEN JSThrow(v) ELSE JSObject(FALSE, TRUE, v)

Selectors == {"null", "download"}

ApplySelector(vs, text) ==
    IF vs = "download" THEN downloadValueSelector(text) ELSE JSNull

-----------------------------------------------------------------------------
(* The registry *)

NotFound == 0

\* Terminal.#all as the set of its <<key, value>> entries
Keys(reg) == {e[1] : e \in reg}

Lookup(reg, id) ==
    IF id \in Keys(reg) THEN (CHOOSE e \in reg : e[1] = id)[2] ELSE NotFound

fromID(id) == Lookup(all, id)

\* a constructor that registers under a key other than its identifier
RegisterOffKey(reg, id, c) == {e \in reg : e[1] # id + 1} \cup {<<id + 1, c>>}

\* line 106: Terminal.#all[this.#id] = this
Register(reg, id, c) == {e \in reg : e[1] # id} \cup {<<id, c>>}

Unregister(reg, id) == {e \in reg : e[1] # id}

-----------------------------------------------------------------------------
(* Terminal.constructor *)

NewTerminal(n, vs, outcome) ==
    [ id |-> n, running |-> TRUE, exitCode |-> "undefined",
      exitSignal |-> "undefined", data |-> <<>>, valueSelector |-> vs,
      \* the child process
      pid |-> (outcome = "ok"), killed |-> FALSE,
      pstate |-> IF outcome = "ok" THEN "alive" ELSE "failed",
      pcode |-> "null", psignal |-> "null", sigPending |-> FALSE,
      \* its stdout stream
      sout |-> "open", own |-> <<>>, rbuf |-> <<>>,
      \* the listen() generator
      lpc |-> "none", li |-> 0, thrown |-> "none",
      \* the wait() calls whose promise is pending
      waiting |-> 0,
      \* history
      returned |-> FALSE, emitted |-> <<>>, consumed |-> <<>>, out |-> <<>>,
      kills |-> 0, killReq |-> 0, streamed |-> <<>>, errors |-> 0,
      waitCalls |-> 0, waitSeen |-> {} ]

-----------------------------------------------------------------------------
(* Terminal.new: the rate-limit gate *)

Timers == {"gate", "settle", "retry"}

\* a gate that never sleeps
GateNoSleep(nowv, last, interval) ==
    [sleep |-> FALSE, lastRun |-> nowv, deadline |-> nowv]

\* a gate that reserves no slot for a call that need not sleep
GateNoReserve(nowv, last, interval) ==
    LET nextRun == last + interval
    IN  IF nextRun > nowv
        THEN [sleep |-> TRUE, lastRun |-> nextRun, deadline |-> nextRun]
        ELSE [sleep |-> FALSE, lastRun |-> last, deadline |-> nowv]

\* a gate that records the time of entry for a call that sleeps
GateReservesNow(nowv, last, interval) ==
    LET nextRun == last + interval
    IN  IF nextRun > nowv
        THEN [sleep |-> TRUE, lastRun |-> nowv, deadline |-> nextRun]
        ELSE [sleep |-> FALSE, lastRun |-> nowv, deadline |-> nowv]

\* lines 252-270: the slot the call takes and whether it sleeps for it
Gate(nowv, last, interval) ==
    LET nextRun == last + interval
    IN  IF nextRun > nowv
        THEN [sleep |-> TRUE, lastRun |-> nextRun, deadline |-> nextRun]
        ELSE [sleep |-> FALSE, lastRun |-> nowv, deadline |-> nowv]

NewCallRec(tc, ri, im, vs, g) ==
    [ pc |-> "gate", i |-> 0, tryCount |-> tc, retryIntervalMS |-> ri,
      intermissionMS |-> im, valueSelector |-> vs, deadline |-> g.deadline,
      term |-> 0, result |-> NotFound, settled |-> "pending",
      \* history
      enter |-> now, gateI |-> runIntervalMS, slept |-> g.sleep,
      slot |-> g.deadline,
      starts |-> <<>>, fails |-> 0,
      liveAtReturn |-> FALSE, foundAtReturn |-> FALSE,
      closedAtReturn |-> FALSE, discarded |-> {} ]

(* Terminal.new: the attempt loop *)

\* an attempt loop without its try/catch: the failure rejects the call
OnAttemptFailureUncaught(cr) ==
    [cr EXCEPT !.pc = "done", !.settled = "rejected", !.fails = @ + 1]

\* a catch block that goes to the next attempt without sleeping
OnAttemptFailureNoWait(cr) ==
    [cr EXCEPT !.pc = "retry", !.deadline = now, !.fails = @ + 1,
               !.discarded = IF cr.pc = "settle" THEN @ \cup {cr.term} ELSE @]

\* lines 313-320: the catch block
OnAttemptFailure(cr) ==
    [cr EXCEPT !.pc = "retry", !.deadline = now + cr.retryIntervalMS,
               !.fails = @ + 1,
               !.discarded = IF cr.pc = "settle" THEN @ \cup {cr.term} ELSE @]

\* a loop condition that admits one more pass
LoopContinuesInclusive(cr) == cr.i <= cr.tryCount

\* line 277: the loop condition
LoopContinues(cr) == cr.i < cr.tryCount

\* lines 277-310, 323: one pass from the loop head up to the next await
AttemptRec(cr, outcome, n) ==
    IF ~LoopContinues(cr)
    THEN [cr EXCEPT !.pc = "done", !.result = NotFound, !.settled = "resolved"]
    ELSE LET st == [cr EXCEPT !.starts = Append(@, now)]
         IN  IF outcome = "throw"
             THEN OnAttemptFailure(st)
             ELSE [st EXCEPT !.pc = "settle", !.term = n,
                             !.deadline = now + cr.intermissionMS]

Constructs(cr, outcome) == LoopContinues(cr) /\ outcome # "throw"

SetCall(k, rec) ==
    IF k > Len(calls) THEN Append(calls, rec) ELSE [calls EXCEPT ![k] = rec]

Launch(k, cr, outcome) ==
    LET n == Len(terms) + 1
    IN  /\ calls' = SetCall(k, AttemptRec(cr, outcome, n))
        /\ IF Constructs(cr, outcome)
           THEN /\ n <= MaxTerms
                /\ terms' = Append(terms, NewTerminal(n, cr.valueSelector, outcome))
                /\ all' = Register(all, n, n)
           ELSE UNCHANGED <<terms, all>>

New(tc, ri, im, vs, outcome) ==
    LET g == Gate(now, lastRun, runIntervalMS)
        cr == NewCallRec(tc, ri, im, vs, g)
        k == Len(calls) + 1
    IN  /\ k <= MaxCalls
        /\ lastRun' = g.lastRun
        /\ IF g.sleep
           THEN calls' = Append(calls, cr) /\ UNCHANGED <<terms, all>>
           ELSE Launch(k, cr, outcome)
        /\ lastKill' = 0
        /\ UNCHANGED <<now, runIntervalMS, platform, fn, config>>

\* line 265-267: the gate's timer fires
GateWake(k, outcome) ==
    /\ k \in 1..Len(calls)
    /\ calls[k].pc = "gate"
    /\ calls[k].deadline <= now
    /\ Launch(k, calls[k], outcome)
    /\ lastKill' = 0
    /\ UNCHANGED <<now, lastRun, runIntervalMS, platform, fn, config>>

\* a retry that takes a new slot at the gate
RetryWakeStamps(k, outcome) ==
    /\ k \in 1..Len(calls)
    /\ calls[k].pc = "retry"
    /\ calls[k].deadline <= now
    /\ Launch(k, [calls[k] EXCEPT !.i = @ + 1], outcome)
    /\ lastRun' = now
    /\ lastKill' = 0
    /\ UNCHANGED <<now, runIntervalMS, platform, fn, config>>

\* lines 317-319, 277: the retry timer fires, i++
RetryWake(k, outcome) ==
    /\ k \in 1..Len(calls)
    /\ calls[k].pc = "retry"
    /\ calls[k].deadline <= now
    /\ Launch(k, [calls[k] EXCEPT !.i = @ + 1], outcome)
    /\ lastKill' = 0
    /\ UNCHANGED <<now, lastRun, runIntervalMS, platform, fn, config>>

\* lines 309, 312: the settle timer fires, the terminal is returned
\* a settle timer that takes an ended process for a failed attempt
OnSettledFailsExited(cr) ==
    IF ~terms[cr.term].running THEN OnAttemptFailure(cr)
    ELSE [cr EXCEPT !.pc = "done", !.result = cr.term, !.settled = "resolved",
                    !.liveAtReturn = TRUE,
                    !.foundAtReturn = (fromID(terms[cr.term].id) = cr.term),
                    !.closedAtReturn = FALSE]

OnSettled(cr) ==
    [cr EXCEPT !.pc = "done", !.result = cr.term, !.settled = "resolved",
               !.liveAtReturn = terms[cr.term].running,
               !.foundAtReturn = (fromID(terms[cr.term].id) = cr.term),
               !.closedAtReturn = (terms[cr.term].pstate = "closed")]

SettleTimeout(k) ==
    /\ k \in 1..Len(calls)
    /\ calls[k].pc = "settle"
    /\ calls[k].deadline <= now
    /\ calls' = [calls EXCEPT ![k] = OnSettled(calls[k])]
    /\ terms' = [terms EXCEPT ![calls[k].term].returned =
                    (calls'[k].result = calls[k].term)]
    /\ lastKill' = 0
    /\ UNCHANGED <<now, lastRun, runIntervalMS, platform, all, fn, config>>

\* lines 294-298, 306-307: an 'error' event reaches the listeners of the
\* attempt that constructed controller c
ErrorListeners(cs, c) ==
    [k \in 1..Len(cs) |->
        IF cs[k].pc = "settle" /\ cs[k].term = c
        THEN OnAttemptFailure(cs[k]) ELSE cs[k]]

-----------------------------------------------------------------------------
(* The child process and its stdout stream *)

Min(a, b) == IF a <= b THEN a ELSE b

SetTerm(c, rec) == [terms EXCEPT ![c] = rec]

\* line 109: process.stdout.on('data', this.#data.push).  The listener is
\* Array.prototype.push detached from #data: the emitter calls it with
\* this = the stdout stream, so the chunk becomes an indexed property of the
\* stream object and #data stays as it is.
DataListener(t, bytes) == [t EXCEPT !.own = Append(@, bytes)]

RECURSIVE Written(_)
Written(n) == IF n = 0 THEN 0 ELSE Len(terms[n].emitted) + Written(n - 1)

RECURSIVE KillCalls(_)
KillCalls(n) == IF n = 0 THEN 0 ELSE terms[n].kills + KillCalls(n - 1)

\* the process writes a chunk
ProcWrite(c, bytes) ==
    /\ c \in 1..Len(terms)
    /\ terms[c].pstate = "alive"
    /\ terms[c].sout = "open"
    /\ Written(Len(terms)) < MaxChunks
    /\ LET t == [terms[c] EXCEPT !.emitted = Append(@, bytes)]
       IN  terms' = SetTerm(c,
                IF t.lpc = "stream"
                THEN [t EXCEPT !.rbuf = Append(@, bytes),
                               !.streamed = Append(@, bytes)]
                ELSE DataListener(t, bytes))
    /\ lastKill' = 0
    /\ UNCHANGED <<now, lastRun, runIntervalMS, platform, all, calls, fn, config>>

ExitWays == {"0", "1", "signal"}

\* end of file on stdout: a stream with nothing buffered (a flowing stream
\* never has) ends at once; a stream with chunks the iterator has not read
\* ends when the iterator has read them all
AtEOF(t) == IF t.sout = "open" /\ t.pstate \in {"exited", "closed"} /\ t.rbuf = <<>>
            THEN [t EXCEPT !.sout = "ended"] ELSE t

\* the process ends, by itself or by a signal it was sent
ProcExit(c, how) ==
    /\ c \in 1..Len(terms)
    /\ terms[c].pstate = "alive"
    /\ how = "signal" => terms[c].sigPending
    /\ terms' = SetTerm(c, AtEOF(
            IF how = "signal"
            THEN [terms[c] EXCEPT !.pstate = "exited", !.pcode = "null",
                                  !.psignal = "SIGTERM"]
            ELSE [terms[c] EXCEPT !.pstate = "exited", !.pcode = how]))
    /\ lastKill' = 0
    /\ UNCHANGED <<now, lastRun, runIntervalMS, platform, all, calls, fn, config>>

\* the spawn failure (ENOENT) surfaces as an 'error' event on the process,
\* on the tick after spawn()
ProcError(c) ==
    /\ c \in 1..Len(terms)
    /\ terms[c].pstate = "failed"
    /\ calls' = ErrorListeners(calls, c)
    /\ terms' = SetTerm(c, AtEOF([terms[c] EXCEPT !.pstate = "exited", !.pcode = "-2",
                                               !.errors = @ + 1]))
    /\ lastKill' = 0
    /\ UNCHANGED <<now, lastRun, runIntervalMS, platform, all, fn, config>>

\* an I/O error on the stdout stream: 'error' event, the stream is destroyed
StdoutError(c) ==
    /\ c \in 1..Len(terms)
    /\ terms[c].pstate = "alive"
    /\ terms[c].sout = "open"
    /\ calls' = ErrorListeners(calls, c)
    /\ terms' = SetTerm(c, [terms[c] EXCEPT !.sout = "errored", !.rbuf = <<>>,
                                          !.errors = @ + 1])
    /\ lastKill' = 0
    /\ UNCHANGED <<now, lastRun, runIntervalMS, platform, all, fn, config>>

\* a 'close' handler that records the exit but leaves #running set
CloseHandlerStillRunning(t) ==
    [t EXCEPT !.exitCode = t.pcode, !.exitSignal = t.psignal]

\* lines 111-117: the 'close' handler
CloseHandler(t) ==
    [t EXCEPT !.running = FALSE, !.exitCode = t.pcode, !.exitSignal = t.psignal]

\* a 'close' handler without the delete
CloseRegistryKeeps(reg, t) == reg

\* line 116: delete Terminal.#all[this.#id]
CloseRegistry(reg, t) == Unregister(reg, t.id)

\* the process has ended and its stdio is closed: its 'close' event is due
CloseDue(t) == t.pstate = "exited" /\ t.sout # "open"

\* what a wait() promise shows when it resolves
WaitObs(t, suspended) ==
    [running |-> t.running, suspended |-> suspended,
     exitSet |-> t.exitCode # "undefined" /\ t.exitSignal # "undefined"]

\* a wait() that never suspends
WaitBodyNoSuspend(t) ==
    [t EXCEPT !.waitSeen = @ \cup {WaitObs(t, FALSE)}]

\* lines 195-203
WaitBody(t) ==
    IF ~t.running
    THEN [t EXCEPT !.waitSeen = @ \cup {WaitObs(t, FALSE)}]
    ELSE [t EXCEPT !.waiting = @ + 1]

\* lines 200-202: the once('close') listeners of the pending wait() calls;
\* they were added after the constructor's handler and run after it
ResolveWaits(t) ==
    IF t.waiting = 0 THEN t
    ELSE [t EXCEPT !.waiting = 0, !.waitSeen = @ \cup {WaitObs(t, TRUE)}]

RECURSIVE WaitCalls(_)
WaitCalls(n) == IF n = 0 THEN 0 ELSE terms[n].waitCalls + WaitCalls(n - 1)

Wait(c) ==
    /\ c \in 1..Len(terms)
    /\ terms[c].returned
    /\ WaitCalls(Len(terms)) < MaxWaits
    /\ terms' = SetTerm(c, [WaitBody(terms[c]) EXCEPT !.waitCalls = @ + 1])
    /\ lastKill' = 0
    /\ UNCHANGED <<now, lastRun, runIntervalMS, platform, all, calls, fn, config>>

\* the process has ended and its stdio is closed: 'close' is emitted
ProcClose(c) ==
    /\ c \in 1..Len(terms)
    /\ CloseDue(terms[c])
    /\ terms' = SetTerm(c,
            ResolveWaits([CloseHandler(terms[c]) EXCEPT !.pstate = "closed"]))
    /\ all' = CloseRegistry(all, terms[c])
    /\ lastKill' = 0
    /\ UNCHANGED <<now, lastRun, runIntervalMS, platform, calls, fn, config>>

-----------------------------------------------------------------------------
(* Terminal.kill *)

\* line 143: ChildProcess.kill sends the signal while the process handle is
\* open and then sets process.killed; with the handle gone it sends nothing
ProcessKill(t) ==
    IF t.pstate = "alive"
    THEN [t EXCEPT !.killed = TRUE, !.killReq = @ + 1, !.sigPending = TRUE]
    ELSE t

\* line 141: treeKill(pid, signal) runs the tree-kill; process.killed is
\* left as it is
TreeKill(t) ==
    [t EXCEPT !.killReq = @ + 1, !.sigPending = @ \/ (t.pstate = "alive")]

\* a kill() that sends nothing
KillBodyNothing(t, plat) == t

\* a kill() without its two early returns
KillBodyUnguarded(t, plat) ==
    IF plat = "win32"
    THEN IF ~t.pid THEN t ELSE TreeKill(t)
    ELSE [t EXCEPT !.killed = TRUE, !.killReq = @ + 1,
                   !.sigPending = @ \/ (t.pstate = "alive")]

\* a kill() that marks the controller as stopped by itself
KillBodyMarksExit(t, plat) ==
    IF ~t.running THEN t
    ELSE [t EXCEPT !.running = FALSE, !.exitSignal = "SIGTERM",
                   !.killReq = @ + 1, !.sigPending = t.pstate = "alive"]

\* lines 131-148
KillBody(t, plat) ==
    IF ~t.running THEN t
    ELSE IF t.killed THEN t
    ELSE IF plat = "win32"
         THEN IF ~t.pid THEN t ELSE TreeKill(t)
         ELSE ProcessKill(t)

Kill(c) ==
    /\ c \in 1..Len(terms)
    /\ terms[c].returned
    /\ KillCalls(Len(terms)) < MaxKills
    /\ terms' = SetTerm(c, [KillBody(terms[c], platform) EXCEPT !.kills = @ + 1])
    /\ lastKill' = c
    /\ UNCHANGED <<now, lastRun, runIntervalMS, platform, all, calls, fn, config>>

-----------------------------------------------------------------------------
(* Terminal.listen *)

\* lines 180-184: what listen() yields for one chunk of text
ListenItem(vs, text) ==
    IF vs # "null" THEN <<ApplySelector(vs, text)>> ELSE <<JSString(text)>>

\* the async iterator of process.stdout is returned (a break or a throw in
\* the body of the for await at line 161): it destroys the stream
IteratorReturn(t) ==
    IF t.lpc = "stream" /\ t.sout = "open"
    THEN [t EXCEPT !.sout = "destroyed", !.rbuf = <<>>] ELSE t

\* a listen() that catches what the transform throws and goes on
EmitSwallows(t, bytes) ==
    LET text == Decode(bytes)
        items == ListenItem(t.valueSelector, text)
    IN  [t EXCEPT !.consumed = Append(@, text),
                  !.out = Append(@, IF items[1].tag = "throw" THEN <<>> ELSE items)]

\* lines 154, 162, 176-185: one chunk goes through #listen and listen; what
\* the transform throws leaves listen() through the yield expression
Emit(t, bytes) ==
    LET text == Decode(bytes)
        items == ListenItem(t.valueSelector, text)
    IN  IF items[1].tag = "throw"
        THEN [IteratorReturn(t) EXCEPT !.consumed = Append(@, text),
                                       !.out = Append(@, <<>>),
                                       !.lpc = "threw", !.thrown = "transform"]
        ELSE [t EXCEPT !.consumed = Append(@, text), !.out = Append(@, items)]

\* lines 151-161: the consumer pulls while #listen is in its first loop;
\* with #data exhausted the generator starts iterating process.stdout,
\* which switches the stream from flowing to paused reading
ListenPull(c) ==
    /\ c \in 1..Len(terms)
    /\ terms[c].returned
    /\ terms[c].lpc \in {"none", "data"}
    /\ LET t == terms[c]
       IN  terms' = SetTerm(c,
                IF t.li < Len(t.data)
                THEN Emit([t EXCEPT !.lpc = "data", !.li = @ + 1], t.data[t.li + 1])
                ELSE [t EXCEPT !.lpc = "stream"])
    /\ lastKill' = 0
    /\ UNCHANGED <<now, lastRun, runIntervalMS, platform, all, calls, fn, config>>

\* lines 161-162: the iterator reads a chunk; read() also emits 'data', and
\* reading the last chunk of a stream at end of file ends the stream
ListenYield(c) ==
    /\ c \in 1..Len(terms)
    /\ terms[c].lpc = "stream"
    /\ terms[c].rbuf # <<>>
    /\ LET b == Head(terms[c].rbuf)
           t == AtEOF([terms[c] EXCEPT !.rbuf = Tail(@)])
       IN  terms' = SetTerm(c, Emit(DataListener(t, b), b))
    /\ lastKill' = 0
    /\ UNCHANGED <<now, lastRun, runIntervalMS, platform, all, calls, fn, config>>

\* a for await that never learns of the end of the stream
EndOfStreamHangs(t) == t

\* lines 161-163: the for await leaves its loop at the end of the stream; a
\* destroyed stream's error is thrown
EndOfStream(t) ==
    IF t.sout = "errored"
    THEN [t EXCEPT !.lpc = "threw", !.thrown = "io"]
    ELSE [t EXCEPT !.lpc = "done"]

ListenEnd(c) ==
    /\ c \in 1..Len(terms)
    /\ terms[c].lpc = "stream"
    /\ terms[c].rbuf = <<>>
    /\ terms[c].sout # "open"
    /\ terms' = SetTerm(c, EndOfStream(terms[c]))
    /\ lastKill' = 0
    /\ UNCHANGED <<now, lastRun, runIntervalMS, platform, all, calls, fn, config>>

\* yt-dlp-helper.ts lines 303-313: what invoke() returns when its loop over
\* listen() has ended, read from the controller as it is at that moment
InvokeResult(t) == [ok |-> TRUE, exitCode |-> t.exitCode]

\* an abandoned iteration that kills the process
AbandonBodyKills(t) ==
    [KillBody(t, "linux") EXCEPT !.lpc = "abandoned"]

\* the consumer breaks out of its for await over listen() (lines 175-186):
\* the generators are returned at the yield where they are suspended
AbandonBody(t) == [IteratorReturn(t) EXCEPT !.lpc = "abandoned"]

Abandon(c) ==
    /\ c \in 1..Len(terms)
    /\ terms[c].lpc \in {"data", "stream"}
    /\ terms[c].out # <<>>
    /\ terms' = SetTerm(c, AbandonBody(terms[c]))
    /\ lastKill' = 0
    /\ UNCHANGED <<now, lastRun, runIntervalMS, platform, all, calls, fn, config>>

-----------------------------------------------------------------------------
(* The clock and the configuration *)

Deadlines == {calls[k].deadline : k \in {j \in 1..Len(calls) : calls[j].pc \in Timers}}

NextStop(t) == IF \E d \in Deadlines : d < t
               THEN CHOOSE d \in Deadlines : \A e \in Deadlines : d <= e
               ELSE t

\* time passes, up to the next timer's deadline; the events that are due on
\* the current turn of the event loop (a spawn failure, a 'close') come first
Tick(d) ==
    /\ now < MaxTime
    /\ \A dl \in Deadlines : dl > now
    /\ \A c \in 1..Len(terms) : terms[c].pstate # "failed" /\ ~CloseDue(terms[c])
    /\ now' = NextStop(Min(now + d, MaxTime))
    /\ lastKill' = 0
    /\ UNCHANGED <<lastRun, runIntervalMS, platform, all, calls, terms, fn, config>>

\* time passes until the next timer is due
TimerTick ==
    /\ Deadlines # {}
    /\ \A dl \in Deadlines : dl > now
    /\ \A c \in 1..Len(terms) : terms[c].pstate # "failed" /\ ~CloseDue(terms[c])
    /\ now' = CHOOSE d \in Deadlines : \A e \in Deadlines : d <= e
    /\ lastKill' = 0
    /\ UNCHANGED <<lastRun, runIntervalMS, platform, all, calls, terms, fn, config>>

\* Terminal.runIntervalMS is a public mutable static
SetRunInterval(v) ==
    /\ v # runIntervalMS
    /\ runIntervalMS' = v
    /\ lastKill' = 0
    /\ UNCHANGED <<now, lastRun, platform, all, calls, terms, fn, config>>

-----------------------------------------------------------------------------

\* config.ts: Config as the module is loaded
DefaultDownloadIntervalMS == 86400000
DefaultConfig ==
    [ytdlpLastDownloadMS |-> 0,
     ytdlpDownloadIntervalMS |-> DefaultDownloadIntervalMS]

\* no helper function has been called
NoCall == [op |-> "none", arg |-> <<>>, out |-> <<>>]

Init ==
    /\ now = StartTime
    /\ lastRun = 0
    /\ runIntervalMS = DefaultRunIntervalMS
    /\ platform \in Platforms
    /\ all = {}
    /\ calls = <<>>
    /\ terms = <<>>
    /\ lastKill = 0
    /\ fn = NoCall
    /\ config = DefaultConfig

\* Terminal.new under every outcome of spawn, and the life of the processes
Next ==
    \/ \E tc \in TryCounts, ri \in RetryIntervals, im \in Intermissions,
          o \in SpawnOutcomes : New(tc, ri, im, "null", o)
    \/ \E k \in 1..MaxCalls, o \in SpawnOutcomes : GateWake(k, o)
    \/ \E k \in 1..MaxCalls, o \in SpawnOutcomes : RetryWake(k, o)
    \/ \E k \in 1..MaxCalls : SettleTimeout(k)
    \/ \E c \in 1..MaxTerms : ProcError(c)
    \/ \E c \in 1..MaxTerms : ProcExit(c, "0")
    \/ \E c \in 1..MaxTerms : ProcClose(c)
    \/ \E d \in Delays : Tick(d)

\* Terminal.new never reads the platform (only kill() does, line 136)
InitNew == Init /\ platform = "linux"

Spec == InitNew /\ [][Next]_vars

\* The controllers of successful spawns: their output, listen() and kill()
NextCtl ==
    \/ \E vs \in Selectors :
          /\ Len(calls) + 1 \in CtlCalls
          /\ New(1, DefaultRetryIntervalMS, DefaultIntermissionMS, vs, "ok")
    \/ \E k \in CtlCalls : RetryWake(k, "ok")
    \/ \E k \in CtlCalls : SettleTimeout(k)
    \/ \E c \in 1..MaxTerms : StdoutError(c)
    \/ \E c \in 1..MaxTerms, b \in Chunks : ProcWrite(c, b)
    \/ \E c \in 1..MaxTerms, how \in ExitWays : ProcExit(c, how)
    \/ \E c \in 1..MaxTerms : ProcClose(c)
    \/ \E c \in 1..MaxTerms : Kill(c)
    \/ \E c \in 1..MaxTerms : ListenPull(c)
    \/ \E c \in 1..MaxTerms : ListenYield(c)
    \/ \E c \in 1..MaxTerms : ListenEnd(c)
    \/ Tick(DefaultIntermissionMS)

SpecCtl == Init /\ [][NextCtl]_vars

\* what the download transform parses, and what it throws on
LifeChunks == {"b:progress", "b:badjson"}

\* A download's controller with its consumers: listen() to the end or
\* abandoned, wait() and kill()
NextLife ==
    \/ /\ Len(calls) + 1 \in CtlCalls
       /\ New(1, DefaultRetryIntervalMS, DefaultIntermissionMS, "download", "ok")
    \/ \E k \in CtlCalls : RetryWake(k, "ok")
    \/ \E k \in CtlCalls : SettleTimeout(k)
    \/ \E c \in 1..MaxTerms : StdoutError(c)
    \/ \E c \in 1..MaxTerms, b \in LifeChunks : ProcWrite(c, b)
    \/ \E c \in 1..MaxTerms, how \in ExitWays : ProcExit(c, how)
    \/ \E c \in 1..MaxTerms : ProcClose(c)
    \/ \E c \in 1..MaxTerms : Kill(c)
    \/ \E c \in 1..MaxTerms : Wait(c)
    \/ \E c \in 1..MaxTerms : ListenPull(c)
    \/ \E c \in 1..MaxTerms : ListenYield(c)
    \/ \E c \in 1..MaxTerms : ListenEnd(c)
    \/ \E c \in 1..MaxTerms : Abandon(c)
    \/ Tick(DefaultIntermissionMS)

SpecLife == Init /\ [][NextLife]_vars

\* A download that is stopped or left to end: the same operations on a
\* process that writes progress lines
NextDownload ==
    \/ /\ Len(calls) + 1 \in CtlCalls
       /\ New(1, DefaultRetryIntervalMS, DefaultIntermissionMS, "download", "ok")
    \/ \E k \in CtlCalls : RetryWake(k, "ok")
    \/ \E k \in CtlCalls : SettleTimeout(k)
    \/ \E c \in 1..MaxTerms : StdoutError(c)
    \/ \E c \in 1..MaxTerms : ProcWrite(c, "b:progress")
    \/ \E c \in 1..MaxTerms, how \in ExitWays : ProcExit(c, how)
    \/ \E c \in 1..MaxTerms : ProcClose(c)
    \/ \E c \in 1..MaxTerms : Kill(c)
    \/ \E c \in 1..MaxTerms : Wait(c)
    \/ \E c \in 1..MaxTerms : ListenPull(c)
    \/ \E c \in 1..MaxTerms : ListenYield(c)
    \/ \E c \in 1..MaxTerms : ListenEnd(c)
    \/ \E c \in 1..MaxTerms : Abandon(c)
    \/ Tick(DefaultIntermissionMS)

\* The event loop delivers the events that are due; a consumer inside its
\* for await goes on pulling until it breaks out; a process that was sent a
\* signal dies of it.
FairDownload ==
    /\ WF_vars(\E c \in 1..MaxTerms : ProcClose(c))
    /\ WF_vars(\E c \in 1..MaxTerms : ListenYield(c))
    /\ WF_vars(\E c \in 1..MaxTerms : ListenEnd(c))
    /\ WF_vars(\E c \in 1..MaxTerms : ProcExit(c, "signal"))

SpecDownload == Init /\ [][NextDownload]_vars /\ FairDownload

-----------------------------------------------------------------------------
(* Properties *)

TermIds == 1..Len(terms)
CallIds == 1..Len(calls)

IsPrefix(a, b) == Len(a) <= Len(b) /\ \A i \in 1..Len(a) : a[i] = b[i]

DecodeAll(seq) == [i \in 1..Len(seq) |-> Decode(seq[i])]

\* the transform's result for the j-th chunk that went through listen()
Result(c, j) == ApplySelector(terms[c].valueSelector, terms[c].consumed[j])

HasTransform(c) == terms[c].valueSelector # "null"

StopAt(c, j) == HasTransform(c) /\ Result(c, j).stop

\* the chunks that went through listen() before the first stop result
BeforeStop(c) ==
    {j \in 1..Len(terms[c].consumed) : \A m \in 1..j : ~StopAt(c, m)}

RECURSIVE Items(_, _)
Items(c, n) == IF n = 0 THEN 0 ELSE Len(terms[c].out[n]) + Items(c, n - 1)

\* the parsed payload a value-carrying result carries
JSParsed(d) == [tag |-> "json", str |-> d, stop |-> FALSE, hasData |-> FALSE]

\* C1: listen() yields the chunks in the order the process emitted them,
\* starting with those emitted before consumption began, and loses none:
\* what went through listen() is a prefix of what was emitted, and all of it
\* once listen() has ended.
C1_BufferedFirstInOrder ==
    \A c \in TermIds :
        /\ IsPrefix(terms[c].consumed, DecodeAll(terms[c].emitted))
        /\ terms[c].lpc = "done" =>
              terms[c].consumed = DecodeAll(terms[c].emitted)

\* C2: when the transform returns a stop result for chunk k, listen() yields
\* nothing for chunk k, nothing for any later chunk, and has ended.
C2_StopEndsListen ==
    \A c \in TermIds : \A j \in 1..Len(terms[c].consumed) :
        StopAt(c, j) =>
            /\ \A m \in j..Len(terms[c].out) : terms[c].out[m] = <<>>
            /\ terms[c].lpc = "done"

\* C3: for a chunk whose transform result carries a value X, listen() yields
\* X itself; without a transform it yields the chunk's decoded text, one item
\* per chunk.
C3_YieldsCarriedValue ==
    \A c \in TermIds : \A j \in BeforeStop(c) :
        IF HasTransform(c)
        THEN Result(c, j).hasData =>
                terms[c].out[j] = <<JSParsed(Result(c, j).str)>>
        ELSE terms[c].out[j] = <<JSString(terms[c].consumed[j])>>

\* C4: for a chunk whose transform result has neither a stop flag nor a
\* value, listen() yields nothing and goes on; the items yielded are as many
\* as the chunks whose result carried a value.
C4_NoValueYieldsNothing ==
    \A c \in TermIds :
        HasTransform(c) =>
            /\ \A j \in BeforeStop(c) :
                  (~Result(c, j).hasData) => terms[c].out[j] = <<>>
            /\ BeforeStop(c) = 1..Len(terms[c].consumed) =>
                  Items(c, Len(terms[c].out)) =
                      Cardinality({j \in BeforeStop(c) : Result(c, j).hasData})

\* C5: the registry holds no controller whose exit has been observed, and
\* fromID of such a controller's identifier returns not-found.
C5_ExitedNotRegistered ==
    /\ \A e \in all : terms[e[2]].running
    /\ \A c \in TermIds :
          ~terms[c].running => fromID(terms[c].id) = NotFound

C5_Witness ==
    \E c \in TermIds :
        terms[c].returned /\ ~terms[c].running /\ terms[c].pstate = "closed"

\* C6: two spawn calls entered at the same instant start their first
\* process at least runIntervalMS apart.
C6_BackToBackSpacing ==
    \A j, k \in CallIds :
        (j < k /\ calls[j].enter = calls[k].enter
               /\ calls[j].starts # <<>> /\ calls[k].starts # <<>>) =>
            calls[k].starts[1] - calls[j].starts[1] >= runIntervalMS

C6_Witness ==
    \E j, k \in CallIds :
        /\ j < k /\ calls[j].enter = calls[k].enter
        /\ calls[j].starts # <<>> /\ calls[k].starts # <<>>

\* C7 as stated: no two launch attempts of the process, first attempts and
\* retries alike, begin closer together than runIntervalMS.
Attempts == UNION {{<<k, a>> : a \in 1..Len(calls[k].starts)} : k \in CallIds}

C7_AllAttemptsSpaced ==
    \A x, y \in Attempts :
        x # y =>
            \/ calls[x[1]].starts[x[2]] - calls[y[1]].starts[y[2]] >= runIntervalMS
            \/ calls[y[1]].starts[y[2]] - calls[x[1]].starts[x[2]] >= runIntervalMS

\* C7 amended: the first launch attempts of any two spawn calls begin at
\* least runIntervalMS (as the later call read it at the gate) apart.
C7_FirstAttemptsSpaced ==
    \A j, k \in CallIds :
        (j < k /\ calls[j].starts # <<>> /\ calls[k].starts # <<>>) =>
            calls[k].starts[1] - calls[j].starts[1] >= calls[k].gateI

C7_Witness ==
    \E j, k \in CallIds :
        /\ j < k /\ calls[j].enter < calls[k].enter
        /\ Len(calls[j].starts) >= 2 /\ calls[k].starts # <<>>
        /\ calls[k].slept

\* C8: a call whose tryCount attempts have all failed resolves with
\* not-found, and no call is ever rejected.
C8_ExhaustedReturnsNull ==
    \A k \in CallIds :
        /\ calls[k].settled # "rejected"
        /\ (calls[k].pc = "done" /\ calls[k].fails = calls[k].tryCount) =>
              (calls[k].settled = "resolved" /\ calls[k].result = NotFound)

C8_Witness ==
    \E k \in CallIds :
        /\ calls[k].tryCount >= 1 /\ calls[k].fails = calls[k].tryCount
        /\ calls[k].pc = "done" /\ calls[k].result = NotFound

\* C9: a kill() that directly follows a kill() of the same controller issues
\* no signal and no tree-kill.
C9_SecondKillNoEffect ==
    [][\A c \in TermIds :
          (lastKill = c /\ lastKill' = c) =>
              terms'[c].killReq = terms[c].killReq]_vars

\* C10 as stated: a controller that spawn returns is running and registered
\* at the moment of return.
C10_ReturnedIsLive ==
    \A k \in CallIds :
        (calls[k].pc = "done" /\ calls[k].result # NotFound) =>
            (calls[k].liveAtReturn /\ calls[k].foundAtReturn)

\* C10 amended: a controller that spawn returns is running and registered at
\* the moment of return unless its process's close event was handled during
\* the settle window; then it is neither.
C10_ReturnedLiveUnlessClosed ==
    \A k \in CallIds :
        (calls[k].pc = "done" /\ calls[k].result # NotFound) =>
            /\ calls[k].liveAtReturn = ~calls[k].closedAtReturn
            /\ calls[k].foundAtReturn = ~calls[k].closedAtReturn

C10_Witness ==
    \E k \in CallIds :
        /\ calls[k].pc = "done" /\ calls[k].result # NotFound
        /\ calls[k].closedAtReturn /\ ~calls[k].liveAtReturn

\* C11: exitCode and exitSignal are null for as long as the controller is
\* running; they are assigned together at the one step that clears isRunning,
\* and neither they nor isRunning change at any other step.
C11_ExitFieldsNullThenSetOnce ==
    [][\A c \in 1..Len(terms') :
          /\ terms'[c].running =>
                (terms'[c].exitCode = "null" /\ terms'[c].exitSignal = "null")
          /\ c \in TermIds =>
                IF terms[c].running /\ ~terms'[c].running
                THEN /\ terms'[c].exitCode = terms[c].pcode
                     /\ terms'[c].exitSignal = terms[c].psignal
                ELSE /\ terms'[c].running = terms[c].running
                     /\ terms'[c].exitCode = terms[c].exitCode
                     /\ terms'[c].exitSignal = terms[c].exitSignal]_vars

InProgress(c) == terms[c].lpc \in {"data", "stream"}

\* C12: a wait() resolves only when the exit has been observed (isRunning
\* false, exit fields assigned), and a wait() is pending only while the
\* controller is running: called after the exit it does not suspend, and the
\* exit event resolves every pending one.
C12_WaitResolvesAtExit ==
    \A c \in TermIds :
        /\ \A o \in terms[c].waitSeen : ~o.running /\ o.exitSet
        /\ terms[c].waiting > 0 => terms[c].running

C12_Witness ==
    \E c \in TermIds :
        \E o, q \in terms[c].waitSeen : o.suspended /\ ~q.suspended

\* C13: once the process has exited with code 0 and its stdout has not
\* failed, a listen() iteration in progress ends: it returns after yielding
\* every chunk the stream held, unless the consumer broke out; it does not
\* throw.
C13_CleanExitEndsListen ==
    \A c \in 1..MaxTerms :
        (/\ c \in TermIds /\ InProgress(c)
         /\ terms[c].pstate \in {"exited", "closed"} /\ terms[c].pcode = "0"
         /\ terms[c].sout \in {"open", "ended"})
        ~> (/\ c \in TermIds
            /\ \/ /\ terms[c].lpc = "done"
                  /\ terms[c].consumed = DecodeAll(terms[c].streamed)
               \/ terms[c].lpc = "abandoned")

C13_Witness ==
    \E c \in TermIds :
        /\ terms[c].lpc = "done" /\ terms[c].pcode = "0"
        /\ Len(terms[c].consumed) = MaxChunks
        /\ terms[c].pstate = "closed"

\* C14: a download whose process writes the one line '[progress] {"a":1}'
\* and exits 0: listen() yields exactly one item, the parsed payload {a: 1},
\* and a wait() that resolves finds exitCode 0.
C14_ProgressEndToEnd ==
    \A c \in TermIds :
        (/\ terms[c].valueSelector = "download"
         /\ terms[c].emitted = <<"b:progress">>
         /\ terms[c].pstate = "closed" /\ terms[c].pcode = "0"
         /\ terms[c].lpc = "done") =>
            /\ terms[c].out = << <<JSParsed("{a: 1}")>> >>
            /\ terms[c].exitCode = "0"

\* C15: a download whose process writes only an already-downloaded line and
\* exits 0: listen() ends having yielded no item.
C15_AlreadyDownloadedEndToEnd ==
    \A c \in TermIds :
        (/\ terms[c].valueSelector = "download"
         /\ terms[c].emitted = <<"b:already">>
         /\ terms[c].pstate \in {"exited", "closed"} /\ terms[c].pcode = "0"
         /\ terms[c].sout = "ended" /\ terms[c].lpc = "done") =>
            Items(c, Len(terms[c].out)) = 0

\* C16: after an I/O error on the stdout of a controller that spawn has
\* returned, the spawn call stays settled with that controller, the
\* controller is not running, and listen() does not throw.
C16_LateErrorEndsQuietly ==
    \A c \in TermIds :
        (terms[c].returned /\ terms[c].sout = "errored") =>
            /\ \E k \in CallIds : calls[k].pc = "done" /\ calls[k].result = c
            /\ ~terms[c].running
            /\ terms[c].lpc # "threw"

\* C17: when the transform throws on chunk k, listen() throws to its
\* consumer at that chunk: the items of the chunks before k have been
\* yielded, nothing is yielded for k, and no chunk after k goes through.
C17_TransformThrowPropagates ==
    \A c \in TermIds : \A j \in 1..Len(terms[c].consumed) :
        Result(c, j).tag = "throw" =>
            /\ terms[c].lpc = "threw" /\ terms[c].thrown = "transform"
            /\ j = Len(terms[c].consumed)
            /\ terms[c].out[j] = <<>>
            /\ \A m \in 1..(j - 1) : terms[c].out[m] = <<Result(c, m)>>

C17_Witness ==
    \E c \in TermIds :
        /\ terms[c].thrown = "transform"
        /\ Len(terms[c].consumed) = 2
        /\ terms[c].out[1] # <<>>

\* C18: the step at which a consumer breaks out of listen() sends no signal
\* and changes none of isRunning, exitCode, exitSignal, the pending wait()
\* calls and the registry; a running controller is still found by fromID.
C18_AbandonLeavesController ==
    [][\A c \in TermIds :
          (InProgress(c) /\ terms'[c].lpc = "abandoned") =>
              /\ terms'[c].running = terms[c].running
              /\ terms'[c].exitCode = terms[c].exitCode
              /\ terms'[c].exitSignal = terms[c].exitSignal
              /\ terms'[c].killReq = terms[c].killReq
              /\ terms'[c].killed = terms[c].killed
              /\ terms'[c].sigPending = terms[c].sigPending
              /\ terms'[c].waiting = terms[c].waiting
              /\ all' = all
              /\ terms'[c].running => Lookup(all', terms'[c].id) = c]_vars

C18_Witness ==
    \E c \in TermIds :
        /\ terms[c].lpc = "abandoned" /\ terms[c].sout = "destroyed"
        /\ terms[c].running /\ fromID(terms[c].id) = c

\* C19: each registry key maps to one controller, whose identifier is that
\* key; every running controller is found by fromID under its identifier;
\* no two controllers have the same identifier.
C19_RegistryKeyedByIdentifier ==
    /\ \A e, f \in all : e[1] = f[1] => e = f
    /\ \A e \in all : e[2] \in TermIds /\ terms[e[2]].id = e[1]
    /\ \A c \in TermIds : terms[c].running => fromID(terms[c].id) = c
    /\ \A c, d \in TermIds : c # d => terms[c].id # terms[d].id

C19_Witness ==
    \E c, d \in TermIds :
        /\ c # d /\ terms[c].running /\ terms[d].running
        /\ fromID(terms[c].id) = c /\ fromID(terms[d].id) = d

\* C20: after kill() on a running controller whose process is alive, the
\* exit is eventually observed: isRunning is false, the controller is out
\* of the registry, no wait() is pending and no listen() is in progress.
C20_KillStopsDownload ==
    \A c \in 1..MaxTerms :
        (/\ c \in TermIds /\ lastKill = c
         /\ terms[c].running /\ terms[c].pstate = "alive")
        ~> (/\ c \in TermIds
            /\ ~terms[c].running /\ fromID(terms[c].id) = NotFound
            /\ terms[c].waiting = 0 /\ ~InProgress(c))

C20_Witness ==
    \E c \in TermIds :
        /\ ~terms[c].running /\ terms[c].exitSignal = "SIGTERM"
        /\ terms[c].killReq > 0 /\ terms[c].lpc = "done"
        /\ \E o \in terms[c].waitSeen : o.suspended

\* the exit codes a process can end with
NumericCodes == {"0", "1", "-2"}

\* C21: at the step where invoke()'s loop over listen() ends, the exitCode
\* that invoke() returns with ok: true is the process's numeric exit code.
C21_InvokeReadsExitCode ==
    [][\A c \in TermIds :
          (/\ terms[c].valueSelector = "null"
           /\ terms[c].lpc = "stream" /\ terms'[c].lpc = "done") =>
              /\ InvokeResult(terms'[c]).exitCode \in NumericCodes
              /\ InvokeResult(terms'[c]).exitCode = terms'[c].pcode]_vars

\* C26: a call that enters spawn at time now with nextAllowed = lastRun +
\* runIntervalMS: if now >= nextAllowed it sets lastRun to now and starts its
\* first attempt in the same step; otherwise it sets lastRun to nextAllowed,
\* waits at the gate, and its first attempt starts no earlier than nextAllowed.
C26_GateUpdateRule ==
    [][/\ Len(calls') = Len(calls) + 1 =>
            LET k == Len(calls')
                nextAllowed == lastRun + runIntervalMS
            IN  IF now >= nextAllowed
                THEN /\ lastRun' = now
                     /\ calls'[k].pc # "gate"
                     /\ calls'[k].tryCount > 0 => calls'[k].starts = <<now>>
                ELSE /\ lastRun' = nextAllowed
                     /\ calls'[k].pc = "gate" /\ calls'[k].starts = <<>>
                     /\ calls'[k].slot = nextAllowed
       /\ \A k \in CallIds :
            (calls[k].pc = "gate" /\ calls'[k].starts # <<>>) =>
                calls'[k].starts[1] >= calls[k].slot]_vars

C26_Witness ==
    \E k \in CallIds :
        /\ calls[k].slept /\ calls[k].starts # <<>>
        /\ calls[k].starts[1] = calls[k].slot /\ calls[k].slot > calls[k].enter

RetryWaits == {250, DefaultRetryIntervalMS}
SettleWindows == {500, DefaultIntermissionMS}

\* One call of Terminal.new with its retries, under every outcome of spawn
\* and with error events on the process and on its stdout
NextRetry ==
    \/ \E tc \in TryCounts, ri \in RetryWaits, im \in SettleWindows,
          o \in SpawnOutcomes :
          /\ calls = <<>>
          /\ New(tc, ri, im, "null", o)
    \/ \E o \in SpawnOutcomes : RetryWake(1, o)
    \/ SettleTimeout(1)
    \/ \E c \in 1..MaxTerms : ProcError(c)
    \/ \E c \in 1..MaxTerms : StdoutError(c)
    \/ \E c \in 1..MaxTerms, how \in {"0", "1"} : ProcExit(c, how)
    \/ \E c \in 1..MaxTerms : Wait(c)
    \/ \E c \in 1..MaxTerms : ProcClose(c)
    \/ \E d \in Delays : Tick(d)

SpecRetry == InitNew /\ [][NextRetry]_vars

\* C28: the controller of a failed attempt is never the result of the call,
\* and once the call has gone on to its next attempt or has returned, fromID
\* does not find it.
C28_FailedControllerDiscarded ==
    \A k \in CallIds : \A c \in calls[k].discarded :
        /\ calls[k].result # c
        /\ calls[k].pc \in {"settle", "done"} => fromID(terms[c].id) # c

\* C29: a call starts at most tryCount attempts; an error event on the
\* process or its stdout while the call is in the settle window fails the
\* attempt and starts a wait of retryIntervalMS, which the next pass of the
\* loop does not cut short; a controller is returned only when intermissionMS
\* has passed since its attempt began with no error event.
C29_SettleWindowDecides ==
    [][\A k \in 1..Len(calls') :
          /\ Len(calls'[k].starts) <= calls'[k].tryCount
          /\ k \in CallIds =>
                /\ (/\ calls[k].pc = "settle"
                    /\ terms'[calls[k].term].errors > terms[calls[k].term].errors) =>
                       /\ calls'[k].pc = "retry"
                       /\ calls'[k].deadline = now + calls[k].retryIntervalMS
                /\ (calls[k].pc = "retry" /\ calls'[k].pc # "retry") =>
                       now >= calls[k].deadline
                /\ (calls[k].pc = "settle" /\ calls'[k].pc = "done") =>
                       /\ calls'[k].result = calls[k].term
                       /\ terms[calls[k].term].errors = 0
                       /\ now >= calls[k].starts[Len(calls[k].starts)]
                                    + calls[k].intermissionMS]_vars

C29_Witness ==
    \E k \in CallIds :
        /\ calls[k].discarded # {} /\ Len(calls[k].starts) = 2
        /\ calls[k].pc = "done" /\ calls[k].result # NotFound
        /\ \E c \in calls[k].discarded : terms[c].sout = "errored"

\* what a caller observes of a controller: isRunning, exitCode, exitSignal
\* and what fromID finds under its id
Observed(T, A, c) ==
    <<T[c].running, T[c].exitCode, T[c].exitSignal, Lookup(A, T[c].id)>>

\* C30: a kill() step leaves isRunning, exitCode, exitSignal and the
\* registry as they were; for a controller these change only at the step
\* that handles the 'close' event of its process.
C30_KillOnlyRequests ==
    [][\A c \in TermIds :
          /\ lastKill' = c =>
                /\ Observed(terms', all', c) = Observed(terms, all, c)
                /\ all' = all
          /\ Observed(terms', all', c) # Observed(terms, all, c) =>
                /\ lastKill' = 0
                /\ terms[c].pstate = "exited" /\ terms'[c].pstate = "closed"]_vars

C30_Witness ==
    \E c \in TermIds :
        /\ lastKill = c /\ terms[c].killReq > 0 /\ terms[c].sigPending
        /\ terms[c].running /\ terms[c].exitSignal = "undefined"
        /\ fromID(terms[c].id) = c

-----------------------------------------------------------------------------
(* The helper functions of yt-dlp-helper.ts, yt-dlp-downloader.ts and      *)
(* utils.ts.  A string is the sequence of the pieces it is concatenated    *)
(* from; the empty string is the empty sequence.                           *)

JSText(segs) == [tag |-> "string", segs |-> segs]
JSUndefined == [tag |-> "undefined", segs |-> <<>>]
JSNullValue == [tag |-> "null", segs |-> <<>>]

\* ToBoolean of undefined, null or a string
Truthy(v) == v.tag = "string" /\ v.segs # <<>>

\* options?.field
OptionalChain(o, field) ==
    IF o.tag \in {"undefined", "null"} THEN JSUndefined ELSE o[field]

\* a getMetadataArgs that pushes the user-agent pair first
getMetadataArgsUserAgentFirst(options) ==
    LET c == OptionalChain(options, "cookiesFromBrowser")
        u == OptionalChain(options, "userAgent")
    IN  (IF Truthy(u) THEN <<JSText(<<"--user-agent">>), u>> ELSE <<>>)
        \o (IF Truthy(c) THEN <<JSText(<<"--cookies-from-browser">>), c>> ELSE <<>>)

\* utils.ts getMetadataArgs
getMetadataArgs(options) ==
    LET c == OptionalChain(options, "cookiesFromBrowser")
        u == OptionalChain(options, "userAgent")
    IN  (IF Truthy(c) THEN <<JSText(<<"--cookies-from-browser">>), c>> ELSE <<>>)
        \o (IF Truthy(u) THEN <<JSText(<<"--user-agent">>), u>> ELSE <<>>)

\* constants.ts
YT_DLP_FILE_NAME == <<"yt-dlp">>

\* yt-dlp-downloader.ts lines 285-301, with platform = os.platform()
getYTDLPFileName ==
    IF platform = "win32" THEN YT_DLP_FILE_NAME \o <<".exe">>
    ELSE IF platform = "linux" THEN YT_DLP_FILE_NAME \o <<"_linux">>
    ELSE IF platform = "darwin" THEN YT_DLP_FILE_NAME \o <<"_macos">>
    ELSE YT_DLP_FILE_NAME

\* a getYTDLPFilePath that always answers the platform default
getYTDLPFilePathDefaultOnly(binaryFilePath) ==
    JSText(<<"./">> \o getYTDLPFileName)

\* yt-dlp-downloader.ts lines 333-341; the parameter defaults to null
getYTDLPFilePath(binaryFilePath) ==
    LET p == IF binaryFilePath.tag = "undefined" THEN JSNullValue
             ELSE binaryFilePath
    IN  IF ~Truthy(p) THEN JSText(<<"./">> \o getYTDLPFileName) ELSE p

\* one call that a helper makes, with the path it is made on
Op(name, path) == [op |-> name, path |-> path]

\* utils.ts linuxPatch: chmod +x through Terminal.new, on linux only
linuxPatch(binaryFilePath) ==
    IF platform = "linux" THEN <<Op("chmod", binaryFilePath)>> ELSE <<>>

\* yt-dlp-helper.ts lines 36-76: the calls invokeInternal makes, in order
invokeInternal(ytdlpDownloadDestination, ffmpegDownloadDestination, downloadBinary) ==
    (IF downloadBinary.ytdlp
     THEN <<Op("downloadYTDLP", ytdlpDownloadDestination)>> ELSE <<>>)
    \o (IF downloadBinary.ffmpeg
        THEN <<Op("downloadFFmpeg",
                  IF Truthy(ffmpegDownloadDestination)
                  THEN ffmpegDownloadDestination ELSE JSText(<<".">>))>>
        ELSE <<>>)
    \o <<Op("getFFmpegLocation", JSUndefined),
         Op("Terminal.new", ytdlpDownloadDestination)>>

\* yt-dlp-helper.ts lines 222-225: the default of download's downloadBinary
DefaultDownloadBinary == [tag |-> "object", ytdlp |-> FALSE, ffmpeg |-> TRUE]

\* yt-dlp-helper.ts lines 218-246: the calls download makes, in order
download(o) ==
    LET downloadBinary == IF o.downloadBinary.tag = "undefined"
                          THEN DefaultDownloadBinary ELSE o.downloadBinary
        dest == getYTDLPFilePath(o.ytdlpDownloadDestination)
    IN  <<Op("getYTDLPFilePath", dest)>>
        \o linuxPatch(dest)
        \o invokeInternal(dest, JSText(<<".">>), downloadBinary)

\* os.platform() on the hosts the file name is chosen for
HostPlatforms == {"win32", "linux", "darwin", "freebsd"}

\* arguments of the helpers
BrowserValues ==
    {JSUndefined, JSText(<<>>), JSText(<<"chrome">>), JSText(<<"firefox">>)}
AgentValues ==
    {JSUndefined, JSText(<<>>), JSText(<<"CustomAgent/1.0">>),
     JSText(<<"Mozilla/5.0">>)}
MetadataOptions ==
    {[tag |-> "undefined", cookiesFromBrowser |-> JSUndefined,
      userAgent |-> JSUndefined],
     [tag |-> "null", cookiesFromBrowser |-> JSUndefined,
      userAgent |-> JSUndefined]}
    \cup [tag : {"object"}, cookiesFromBrowser : BrowserValues,
          userAgent : AgentValues]
PathValues ==
    {JSUndefined, JSNullValue, JSText(<<>>), JSText(<<"/opt/", "yt-dlp">>),
     JSText(<<"yt-dlp", ".exe">>), JSText(<<"./", "bin/", "ytdlp">>)}
DownloadBinaryValues ==
    {[tag |-> "undefined", ytdlp |-> FALSE, ffmpeg |-> FALSE]}
    \cup [tag : {"object"}, ytdlp : BOOLEAN, ffmpeg : BOOLEAN]
DownloadOptions ==
    [downloadBinary : DownloadBinaryValues,
     ytdlpDownloadDestination : PathValues \ {JSNullValue}]

CallGetMetadataArgs(o) ==
    /\ fn' = [op |-> "getMetadataArgs", arg |-> o, out |-> getMetadataArgs(o)]
    /\ UNCHANGED <<now, lastRun, runIntervalMS, platform, all, calls, terms,
                   lastKill, config>>

CallGetYTDLPFilePath(p) ==
    /\ fn' = [op |-> "getYTDLPFilePath", arg |-> p, out |-> getYTDLPFilePath(p)]
    /\ UNCHANGED <<now, lastRun, runIntervalMS, platform, all, calls, terms,
                   lastKill, config>>

CallDownload(o) ==
    /\ fn' = [op |-> "download", arg |-> o, out |-> download(o)]
    /\ UNCHANGED <<now, lastRun, runIntervalMS, platform, all, calls, terms,
                   lastKill, config>>

InitHelpers ==
    /\ now = StartTime
    /\ lastRun = 0
    /\ runIntervalMS = DefaultRunIntervalMS
    /\ platform \in HostPlatforms
    /\ all = {}
    /\ calls = <<>>
    /\ terms = <<>>
    /\ lastKill = 0
    /\ fn = NoCall
    /\ config = DefaultConfig

NextHelpers ==
    \/ \E o \in MetadataOptions : CallGetMetadataArgs(o)
    \/ \E p \in PathValues : CallGetYTDLPFilePath(p)
    \/ \E o \in DownloadOptions : CallDownload(o)

SpecHelpers == InitHelpers /\ [][NextHelpers]_vars

\* the positions of the calls named name in a sequence of calls
CallsOf(ops, name) == {i \in 1..Len(ops) : ops[i].op = name}

\* C22: download() called without downloadBinary invokes downloadYTDLP, and
\* does so before it calls Terminal.new for yt-dlp.
C22_DefaultDownloadsBinary ==
    (fn.op = "download" /\ fn.arg.downloadBinary.tag = "undefined") =>
        \E i \in CallsOf(fn.out, "downloadYTDLP") :
            \A j \in CallsOf(fn.out, "Terminal.new") : i < j

\* C24: getMetadataArgs answers the empty list for undefined, null and for
\* options with neither field set (non-empty); otherwise the pair
\* --cookies-from-browser c when c is set followed by the pair --user-agent u
\* when u is set, the cookies pair first.
C24_MetadataArgs ==
    fn.op = "getMetadataArgs" =>
        LET o == fn.arg
            isObj == o.tag = "object"
            hasC == isObj /\ Truthy(o.cookiesFromBrowser)
            hasU == isObj /\ Truthy(o.userAgent)
            cookies == <<JSText(<<"--cookies-from-browser">>), o.cookiesFromBrowser>>
            agent == <<JSText(<<"--user-agent">>), o.userAgent>>
        IN  /\ (~hasC /\ ~hasU) => fn.out = <<>>
            /\ (hasC /\ ~hasU) => fn.out = cookies
            /\ (~hasC /\ hasU) => fn.out = agent
            /\ (hasC /\ hasU) => fn.out = cookies \o agent

C24_Witness ==
    /\ fn.op = "getMetadataArgs"
    /\ Len(fn.out) = 4
    /\ fn.out[1] = JSText(<<"--cookies-from-browser">>)
    /\ fn.out[3] = JSText(<<"--user-agent">>)

\* C25: getYTDLPFilePath answers its argument for a non-empty path, and for
\* null, undefined and the empty string the default of the platform, which
\* begins with ./yt-dlp.
C25_FilePath ==
    fn.op = "getYTDLPFilePath" =>
        IF fn.arg.tag = "string" /\ fn.arg.segs # <<>>
        THEN fn.out = fn.arg
        ELSE /\ fn.out.tag = "string"
             /\ IsPrefix(<<"./", "yt-dlp">>, fn.out.segs)

C25_Witness ==
    /\ fn.op = "getYTDLPFilePath"
    /\ fn.arg = JSText(<<>>)
    /\ platform = "darwin"
    /\ fn.out = JSText(<<"./", "yt-dlp", "_macos">>)

-----------------------------------------------------------------------------
(* getYTDLPVersion (yt-dlp-downloader.ts lines 223-244)                    *)

\* what yt-dlp --version writes
VersionChunks == {"b:version", "b:newline"}

\* String.prototype.trim on the texts of VersionChunks
Trim(text) ==
    CASE text = "2024.08.06\n" -> "2024.08.06"
      [] text = "\n" -> ""
      [] OTHER -> text

\* lines 235-241: the body of the for await, run on the item listen() has
\* just yielded (t0 before the item, t1 after): a non-empty text is
\* answered trimmed after kill(), and the return leaves the iteration
VersionBody(t0, t1) ==
    IF t1.lpc \in {"data", "stream"} /\ Len(t1.consumed) > Len(t0.consumed)
       /\ t1.consumed[Len(t1.consumed)] # ""
    THEN [term |-> [AbandonBody(KillBody(t1, platform)) EXCEPT !.kills = @ + 1],
          ret |-> <<JSString(Trim(t1.consumed[Len(t1.consumed)]))>>]
    ELSE [term |-> t1, ret |-> <<>>]

\* the step of getYTDLPVersion that takes controller c from t0 to t1
VersionStep(c, t1) ==
    LET r == VersionBody(terms[c], t1)
    IN  /\ terms' = SetTerm(c, r.term)
        /\ fn' = IF r.ret # <<>>
                 THEN [op |-> "getYTDLPVersion", arg |-> c, out |-> r.ret[1]]
                 ELSE fn

\* line 232: Terminal.new answered null
VersionNotSpawned ==
    /\ fn.op = "none"
    /\ Len(calls) = 1
    /\ calls[1].pc = "done" /\ calls[1].result = NotFound
    /\ fn' = [op |-> "getYTDLPVersion", arg |-> NotFound, out |-> JSNull]
    /\ lastKill' = 0
    /\ UNCHANGED <<now, lastRun, runIntervalMS, platform, all, calls, terms, config>>

\* line 235: the for await asks listen() for an item (as ListenPull)
VersionPull(c) ==
    /\ c \in 1..Len(terms)
    /\ terms[c].returned
    /\ terms[c].lpc \in {"none", "data"}
    /\ LET t == terms[c]
       IN  VersionStep(c,
                IF t.li < Len(t.data)
                THEN Emit([t EXCEPT !.lpc = "data", !.li = @ + 1], t.data[t.li + 1])
                ELSE [t EXCEPT !.lpc = "stream"])
    /\ lastKill' = 0
    /\ UNCHANGED <<now, lastRun, runIntervalMS, platform, all, calls, config>>

\* line 235: listen() yields a chunk of the stream (as ListenYield)
VersionYield(c) ==
    /\ c \in 1..Len(terms)
    /\ terms[c].lpc = "stream"
    /\ terms[c].rbuf # <<>>
    /\ LET b == Head(terms[c].rbuf)
           t == AtEOF([terms[c] EXCEPT !.rbuf = Tail(@)])
       IN  VersionStep(c, Emit(DataListener(t, b), b))
    /\ lastKill' = 0
    /\ UNCHANGED <<now, lastRun, runIntervalMS, platform, all, calls, config>>

\* lines 235, 243: listen() is over (as ListenEnd): null is answered, or
\* what listen() threw leaves getYTDLPVersion
VersionEnd(c) ==
    /\ c \in 1..Len(terms)
    /\ terms[c].lpc = "stream"
    /\ terms[c].rbuf = <<>>
    /\ terms[c].sout # "open"
    /\ terms' = SetTerm(c, EndOfStream(terms[c]))
    /\ fn' = [op |-> "getYTDLPVersion", arg |-> c,
              out |-> IF terms'[c].lpc = "threw"
                      THEN JSThrow(terms'[c].thrown) ELSE JSNull]
    /\ lastKill' = 0
    /\ UNCHANGED <<now, lastRun, runIntervalMS, platform, all, calls, config>>

\* One call of getYTDLPVersion: Terminal.new with its defaults (the attempts
\* capped at MaxTerms), then the loop over listen()
NextVersion ==
    \/ \E o \in {"ok", "enoent"} :
          /\ calls = <<>>
          /\ New(Min(DefaultTryCount, MaxTerms), DefaultRetryIntervalMS,
                 DefaultIntermissionMS, "null", o)
    \/ \E o \in {"ok", "enoent"} : RetryWake(1, o)
    \/ SettleTimeout(1)
    \/ \E c \in 1..MaxTerms : ProcError(c)
    \/ \E c \in 1..MaxTerms, b \in VersionChunks : ProcWrite(c, b)
    \/ \E c \in 1..MaxTerms : ProcExit(c, "0")
    \/ \E c \in 1..MaxTerms : ProcClose(c)
    \/ VersionNotSpawned
    \/ \E c \in 1..MaxTerms : VersionPull(c)
    \/ \E c \in 1..MaxTerms : VersionYield(c)
    \/ \E c \in 1..MaxTerms : VersionEnd(c)
    \/ \E d \in Delays : Tick(d)

SpecVersion == Init /\ [][NextVersion]_vars

\* C23: getYTDLPVersion does not throw; it answers null when Terminal.new
\* answered null or the process wrote nothing non-empty, and otherwise the
\* first non-empty chunk the process wrote, trimmed, after a kill() call.
C23_VersionResult ==
    fn.op = "getYTDLPVersion" =>
        /\ fn.out.tag # "throw"
        /\ IF fn.arg = NotFound THEN fn.out = JSNull
           ELSE LET written == DecodeAll(terms[fn.arg].emitted)
                    nonEmpty == {i \in 1..Len(written) : written[i] # ""}
                IN  IF nonEmpty = {} THEN fn.out = JSNull
                    ELSE /\ fn.out = JSString(Trim(written[
                                CHOOSE i \in nonEmpty : \A j \in nonEmpty : i <= j]))
                         /\ terms[fn.arg].kills > 0

\* C31: a kill() on a controller that is not running, or whose process is
\* marked killed, requests nothing and leaves the controller, its process
\* and the registry as they are.
C31_KillIgnoredWhenDone ==
    [][\A c \in TermIds :
          (lastKill' = c /\ (~terms[c].running \/ terms[c].killed)) =>
              /\ terms'[c] = [terms[c] EXCEPT !.kills = @ + 1]
              /\ all' = all]_vars

C31_Witness ==
    \E c \in TermIds :
        /\ lastKill = c /\ terms[c].kills >= 2
        /\ terms[c].killed /\ terms[c].killReq = 1 /\ terms[c].running

\* how spawn ends in the attempts of the gate's callers
GateOutcomes == {"ok", "throw"}

\* Concurrent calls of Terminal.new with retries, while the minimum interval
\* is changed between them
NextGate ==
    \/ \E tc \in {1, 2}, o \in GateOutcomes :
          New(tc, DefaultRetryIntervalMS, DefaultIntermissionMS, "null", o)
    \/ \E k \in 1..MaxCalls, o \in GateOutcomes : GateWake(k, o)
    \/ \E k \in 1..MaxCalls, o \in GateOutcomes : RetryWake(k, o)
    \/ \E k \in 1..MaxCalls : SettleTimeout(k)
    \/ \E v \in RunIntervals : SetRunInterval(v)
    \/ \E d \in Delays : Tick(d)

SpecGate == InitNew /\ [][NextGate]_vars

\* C32: #lastRun never decreases, whatever runIntervalMS is set to between
\* the calls; it changes only at the step where a call enters the gate,
\* which stores now or #lastRun + runIntervalMS; no retry, timer or process
\* event writes it.
C32_LastRunMonotonic ==
    [][/\ lastRun' >= lastRun
       /\ Len(calls') = Len(calls) + 1 =>
             /\ lastRun' \in {now, lastRun + runIntervalMS}
             /\ lastRun' >= now
       /\ Len(calls') = Len(calls) => lastRun' = lastRun]_vars

C32_Witness ==
    \E j, k \in CallIds :
        /\ j < k /\ calls[j].gateI # calls[k].gateI
        /\ calls[k].slept /\ calls[k].starts # <<>>
        /\ calls[j].fails >= 1 /\ Len(calls[j].starts) = 2

\* the attempts the calls made so far may still start
RECURSIVE Committed(_)
Committed(n) == IF n = 0 THEN 0 ELSE calls[n].tryCount + Committed(n - 1)

\* Concurrent calls of Terminal.new up to their return, with timers that
\* fire; the calls together make no more than MaxTerms attempts
NextReturn ==
    \/ \E tc \in TryCounts, o \in SpawnOutcomes :
          /\ Committed(Len(calls)) + tc <= MaxTerms
          /\ New(tc, DefaultRetryIntervalMS, DefaultIntermissionMS, "null", o)
    \/ \E k \in 1..MaxCalls, o \in SpawnOutcomes : GateWake(k, o)
    \/ \E k \in 1..MaxCalls, o \in SpawnOutcomes : RetryWake(k, o)
    \/ \E k \in 1..MaxCalls : SettleTimeout(k)
    \/ \E c \in 1..MaxTerms : ProcError(c)
    \/ \E c \in 1..MaxTerms : ProcClose(c)
    \/ TimerTick

\* timers fire and the events of the event loop are delivered
FairReturn ==
    /\ \A k \in 1..MaxCalls :
          /\ WF_vars(\E o \in SpawnOutcomes : GateWake(k, o))
          /\ WF_vars(\E o \in SpawnOutcomes : RetryWake(k, o))
          /\ WF_vars(SettleTimeout(k))
    /\ \A c \in 1..MaxTerms : WF_vars(ProcError(c)) /\ WF_vars(ProcClose(c))
    /\ WF_vars(TimerTick)

SpecReturn == InitNew /\ [][NextReturn]_vars /\ FairReturn

\* C33: every call of Terminal.new returns, whatever its tryCount and
\* however many calls are at the gate with it; a call with tryCount = 0
\* returns null and starts no attempt.
C33_SpawnReturns ==
    /\ \A k \in 1..MaxCalls :
          (k \in CallIds) ~> (k \in CallIds /\ calls[k].pc = "done")
    /\ [](\A k \in CallIds :
            calls[k].tryCount = 0 =>
                /\ calls[k].starts = <<>> /\ calls[k].term = 0
                /\ calls[k].pc \in {"gate", "done"}
                /\ calls[k].pc = "done" => calls[k].result = NotFound)

C33_Witness ==
    \E j, k \in CallIds :
        /\ calls[j].pc = "done" /\ calls[j].fails >= 1
        /\ calls[j].result # NotFound
        /\ calls[k].pc = "done" /\ calls[k].tryCount = 0 /\ calls[k].slept
        /\ calls[k].result = NotFound /\ calls[k].starts = <<>>

\* C34: an attempt whose process ended, with its 'close' handled and no
\* error event, before the settle timer fired is not a failed attempt: the
\* timer returns its controller and no further attempt starts; a wait() on
\* that controller does not suspend and finds the exit fields set.
C34_EarlyExitStillReturned ==
    [][\A k \in CallIds :
          /\ (/\ calls[k].pc = "settle" /\ calls'[k].pc # "settle"
              /\ terms[calls[k].term].pstate = "closed"
              /\ terms[calls[k].term].errors = 0) =>
                 /\ calls'[k].pc = "done"
                 /\ calls'[k].result = calls[k].term
                 /\ calls'[k].starts = calls[k].starts
                 /\ calls'[k].fails = calls[k].fails
                 /\ now >= calls[k].deadline
          /\ (/\ calls'[k].pc = "done" /\ calls'[k].result # NotFound
              /\ calls'[k].closedAtReturn) =>
                 LET t == terms'[calls'[k].result]
                 IN  /\ t.waiting = 0
                     /\ \A o \in t.waitSeen :
                           ~o.suspended /\ ~o.running /\ o.exitSet]_vars

C34_Witness ==
    \E k \in CallIds :
        /\ calls[k].pc = "done" /\ calls[k].result # NotFound
        /\ calls[k].closedAtReturn /\ calls[k].tryCount = 2
        /\ Len(calls[k].starts) = 1
        /\ terms[calls[k].result].pcode = "1"
        /\ terms[calls[k].result].waitSeen # {}

-----------------------------------------------------------------------------
(* Terminal.fromID on any string.  Terminal.#all is an object literal      *)
(* (line 11): a property read that finds no own property goes on to        *)
(* Object.prototype.  An identifier is 32 hexadecimal digits (line 100),   *)
(* so no own key of #all is the name of a property of Object.prototype.    *)

\* a string that has the form of an identifier (the n-th one), or another
IdKey(n) == [kind |-> "id", n |-> n, name |-> ""]
NameKey(name) == [kind |-> "name", n |-> 0, name |-> name]

\* the properties of Object.prototype and the type of their values
ObjectPrototype ==
    [toString |-> "function", constructor |-> "function",
     hasOwnProperty |-> "function", valueOf |-> "function",
     __proto__ |-> "object"]

JSValueOf(tag, c) == [tag |-> tag, c |-> c]

\* lines 333-335: Terminal.#all[id]
TerminalFromID(key) ==
    IF key.kind = "id" /\ key.n \in Keys(all)
    THEN JSValueOf("Terminal", Lookup(all, key.n))
    ELSE IF key.kind = "name" /\ key.name \in DOMAIN ObjectPrototype
         THEN JSValueOf(ObjectPrototype[key.name], NotFound)
         ELSE JSValueOf("undefined", NotFound)

\* the strings fromID is called with
FromIDKeys ==
    {IdKey(n) : n \in 1..(MaxTerms + 1)}
    \cup {NameKey(s) : s \in {"toString", "constructor", "__proto__", "download-1"}}

CallFromID(key) ==
    /\ fn' = [op |-> "fromID", arg |-> key, out |-> TerminalFromID(key)]
    /\ lastKill' = 0
    /\ UNCHANGED <<now, lastRun, runIntervalMS, platform, all, calls, terms, config>>

\* Controllers come and go while fromID is called
NextRegistry ==
    \/ \E o \in {"ok", "enoent"} :
          New(1, DefaultRetryIntervalMS, DefaultIntermissionMS, "null", o)
    \/ \E k \in 1..MaxCalls, o \in {"ok", "enoent"} : GateWake(k, o)
    \/ \E k \in 1..MaxCalls, o \in {"ok", "enoent"} : RetryWake(k, o)
    \/ \E k \in 1..MaxCalls : SettleTimeout(k)
    \/ \E c \in 1..MaxTerms : ProcError(c)
    \/ \E c \in 1..MaxTerms : ProcExit(c, "0")
    \/ \E c \in 1..MaxTerms : ProcClose(c)
    \/ \E key \in FromIDKeys : CallFromID(key)
    \/ \E d \in Delays : Tick(d)

SpecRegistry == InitNew /\ [][NextRegistry]_vars

\* C35: fromID answers not-found (undefined or null) for every string that
\* is not the identifier of a registered controller, and whatever else it
\* answers is a Terminal.
C35_FromIDTotal ==
    fn.op = "fromID" =>
        /\ ~(fn.arg.kind = "id" /\ fn.arg.n \in Keys(all)) =>
              fn.out.tag \in {"undefined", "null"}
        /\ fn.out.tag \notin {"undefined", "null"} => fn.out.tag = "Terminal"

-----------------------------------------------------------------------------
(* downloadYTDLP and manualDownloadLatestYTDLP.  What the world answers    *)
(* during a call is its environment: the version the installed binary      *)
(* reports (null without one), the tag of the latest release or a failed  *)
(* request, and whether the file transfer succeeds.  What updateYTDLP      *)
(* answers is not read (line 181).                                         *)

VersionTags == {JSText(<<"2024.08.06">>), JSText(<<"2025.01.15">>)}

DownloadEnvs ==
    [currentVersion : {JSNullValue} \cup VersionTags,
     latest : {JSThrow("response")} \cup {JSString("2025.01.15")},
     file : {"ok", "throw"}]

DownloadYTDLPOptions ==
    [filePath : {JSUndefined},
     version : {JSUndefined, JSText(<<"2025.01.15">>)},
     forceDownload : BOOLEAN]

\* the release tag as the string downloadYTDLP compares and downloads
TagOf(release) == JSText(<<release.str>>)

\* lines 186-207: the version is known; the release file is fetched unless
\* it is the installed one
DownloadRelease(o, env, version, filePath, done) ==
    IF ~o.forceDownload /\ env.currentVersion = version
    THEN [ops |-> done, thrown |-> FALSE]
    ELSE [ops |-> Append(done, Op("downloadFile", filePath)),
          thrown |-> env.file = "throw"]

\* lines 173-207: after the throttle
DownloadOrUpdate(o, env, done) ==
    LET filePath == IF ~Truthy(o.filePath)
                    THEN JSText(<<"./">> \o getYTDLPFileName) ELSE o.filePath
    IN  IF ~Truthy(o.version) /\ Truthy(env.currentVersion)
        THEN [ops |-> Append(done, Op("updateYTDLP", filePath)), thrown |-> FALSE]
        ELSE IF ~Truthy(o.version)
        THEN LET asked == Append(done, Op("getGithubReleases", JSUndefined))
             IN  IF env.latest.tag = "throw"
                 THEN [ops |-> asked, thrown |-> TRUE]
                 ELSE DownloadRelease(o, env, TagOf(env.latest), filePath, asked)
        ELSE DownloadRelease(o, env, o.version, filePath, done)

\* a downloadYTDLP that notes the time of the download when it is over
downloadYTDLPStampsLate(o, env, cfg, nowMS) ==
    LET probe == <<Op("getYTDLPVersion", JSNullValue)>>
    IN  IF /\ ~o.forceDownload
           /\ env.currentVersion # JSNullValue
           /\ nowMS - cfg.ytdlpLastDownloadMS < cfg.ytdlpDownloadIntervalMS
        THEN [ops |-> probe, thrown |-> FALSE, config |-> cfg]
        ELSE LET r == DownloadOrUpdate(o, env, probe)
             IN  [ops |-> Append(r.ops, Op("Config.ytdlpLastDownloadMS", JSUndefined)),
                  thrown |-> r.thrown,
                  config |-> [cfg EXCEPT !.ytdlpLastDownloadMS = nowMS]]

\* lines 149-208: the calls downloadYTDLP makes, in order, whether it
\* rejects, and Config as it leaves it
downloadYTDLP(o, env, cfg, nowMS) ==
    LET probe == <<Op("getYTDLPVersion", JSNullValue)>>
    IN  IF /\ ~o.forceDownload
           /\ env.currentVersion # JSNullValue
           /\ nowMS - cfg.ytdlpLastDownloadMS < cfg.ytdlpDownloadIntervalMS
        THEN [ops |-> probe, thrown |-> FALSE, config |-> cfg]
        ELSE LET r == DownloadOrUpdate(o, env,
                          Append(probe, Op("Config.ytdlpLastDownloadMS", JSUndefined)))
             IN  [ops |-> r.ops, thrown |-> r.thrown,
                  config |-> [cfg EXCEPT !.ytdlpLastDownloadMS = nowMS]]

\* part_000 lines 124-148
manualDownloadLatestYTDLP(filePath, env, cfg, nowMS) ==
    LET r == downloadYTDLP([filePath |-> filePath, version |-> JSUndefined,
                            forceDownload |-> TRUE], env, cfg, nowMS)
    IN  [ops |-> r.ops, ok |-> ~r.thrown, config |-> r.config]

CallDownloadYTDLP(o, env) ==
    LET r == downloadYTDLP(o, env, config, now)
    IN  /\ fn' = [op |-> "downloadYTDLP",
                  arg |-> [o |-> o, env |-> env, nowMS |-> now, before |-> config],
                  out |-> r]
        /\ config' = r.config
        /\ lastKill' = 0
        /\ UNCHANGED <<now, lastRun, runIntervalMS, platform, all, calls, terms>>

CallManualDownload(filePath, env) ==
    LET r == manualDownloadLatestYTDLP(filePath, env, config, now)
    IN  /\ fn' = [op |-> "manualDownloadLatestYTDLP",
                  arg |-> [o |-> filePath, env |-> env, nowMS |-> now,
                           before |-> config],
                  out |-> r]
        /\ config' = r.config
        /\ lastKill' = 0
        /\ UNCHANGED <<now, lastRun, runIntervalMS, platform, all, calls, terms>>

\* Config.ytdlpDownloadIntervalMS as an application sets it
DownloadIntervals == {250, 500}

InitRefresh ==
    /\ now = StartTime
    /\ lastRun = 0
    /\ runIntervalMS = DefaultRunIntervalMS
    /\ platform \in Platforms
    /\ all = {}
    /\ calls = <<>>
    /\ terms = <<>>
    /\ lastKill = 0
    /\ fn = NoCall
    /\ \E v \in DownloadIntervals :
          config = [DefaultConfig EXCEPT !.ytdlpDownloadIntervalMS = v]

\* Calls of the two download functions as time passes
NextRefresh ==
    \/ \E o \in DownloadYTDLPOptions, env \in DownloadEnvs : CallDownloadYTDLP(o, env)
    \/ \E env \in DownloadEnvs : CallManualDownload(JSUndefined, env)
    \/ \E d \in Delays : Tick(d)

SpecRefresh == InitRefresh /\ [][NextRefresh]_vars

\* the calls that update or download
Refreshes(ops) ==
    CallsOf(ops, "updateYTDLP") \cup CallsOf(ops, "getGithubReleases")
    \cup CallsOf(ops, "downloadFile")

\* C36: with forceDownload false, a version detected and less than
\* ytdlpDownloadIntervalMS since ytdlpLastDownloadMS, downloadYTDLP updates
\* nothing, downloads nothing and leaves ytdlpLastDownloadMS; in every other
\* case it sets ytdlpLastDownloadMS to the current time, and does so before
\* any update or download.
C36_RefreshThrottle ==
    fn.op = "downloadYTDLP" =>
        LET a == fn.arg
            throttled ==
                /\ ~a.o.forceDownload
                /\ a.env.currentVersion # JSNullValue
                /\ a.nowMS - a.before.ytdlpLastDownloadMS
                      < a.before.ytdlpDownloadIntervalMS
            stamps == CallsOf(fn.out.ops, "Config.ytdlpLastDownloadMS")
        IN  /\ config = fn.out.config
            /\ IF throttled
               THEN /\ Refreshes(fn.out.ops) = {}
                    /\ config = a.before
               ELSE /\ config.ytdlpLastDownloadMS = a.nowMS
                    /\ stamps # {}
                    /\ \A i \in Refreshes(fn.out.ops) : \E j \in stamps : j < i

C36_Witness ==
    /\ fn.op = "downloadYTDLP"
    /\ ~fn.arg.o.forceDownload
    /\ fn.arg.env.currentVersion # JSNullValue
    /\ fn.arg.before.ytdlpLastDownloadMS > 0
    /\ fn.arg.nowMS > fn.arg.before.ytdlpLastDownloadMS
    /\ Refreshes(fn.out.ops) = {}
    /\ config.ytdlpLastDownloadMS = fn.arg.before.ytdlpLastDownloadMS

\* C37: manualDownloadLatestYTDLP reaches the download of the release file
\* whatever binary is installed and whenever the last download was, and it
\* answers ok: true only when that download succeeded.
C37_ManualDownloadForces ==
    fn.op = "manualDownloadLatestYTDLP" =>
        /\ CallsOf(fn.out.ops, "downloadFile") # {}
        /\ fn.out.ok => fn.arg.env.file = "ok"

-----------------------------------------------------------------------------
(* getPlaylistInfo (yt-dlp-helper.ts lines 125-182), from Terminal.new on  *)

\* what yt-dlp -J writes: a document, the document null, a line of log
PlaylistChunks == {"b:json", "b:null", "b:other"}

Resolved(ok, data) == [tag |-> "resolved", ok |-> ok, data |-> data]
Rejected(e) == [tag |-> "throw", ok |-> FALSE, data |-> e]

\* lines 164-176: the text parses and the document is truthy
ParsesTruthy(text) == JSONParse(text) \notin {"SyntaxError", "null"}

\* an end of getPlaylistInfo that leaves the process alone
PlaylistFinishNoKill(t, value) == [term |-> t, ret |-> <<value>>]

\* lines 179-181: kill() and the return
PlaylistFinish(t, value) ==
    [term |-> [KillBody(t, platform) EXCEPT !.kills = @ + 1], ret |-> <<value>>]

\* lines 163-177: the body of the for await on the item listen() has just
\* yielded (t0 before the item, t1 after); the break returns the iterator
PlaylistBody(t0, t1) ==
    IF /\ t1.lpc \in {"data", "stream"}
       /\ Len(t1.consumed) > Len(t0.consumed)
       /\ ParsesTruthy(t1.consumed[Len(t1.consumed)])
    THEN PlaylistFinish(AbandonBody(t1),
            Resolved(TRUE, JSONParse(t1.consumed[Len(t1.consumed)])))
    ELSE [term |-> t1, ret |-> <<>>]

PlaylistStep(c, t1) ==
    LET r == PlaylistBody(terms[c], t1)
    IN  /\ terms' = SetTerm(c, r.term)
        /\ fn' = IF r.ret # <<>>
                 THEN [op |-> "getPlaylistInfo", arg |-> c, out |-> r.ret[1]]
                 ELSE fn

\* lines 152-155: invokeInternal answered null
PlaylistNotSpawned ==
    /\ fn.op = "none"
    /\ Len(calls) = 1
    /\ calls[1].pc = "done" /\ calls[1].result = NotFound
    /\ fn' = [op |-> "getPlaylistInfo", arg |-> NotFound,
              out |-> Resolved(FALSE, "")]
    /\ lastKill' = 0
    /\ UNCHANGED <<now, lastRun, runIntervalMS, platform, all, calls, terms, config>>

\* line 161: the for await asks listen() for an item (as ListenPull)
PlaylistPull(c) ==
    /\ c \in 1..Len(terms)
    /\ terms[c].returned
    /\ terms[c].lpc \in {"none", "data"}
    /\ LET t == terms[c]
       IN  PlaylistStep(c,
                IF t.li < Len(t.data)
                THEN Emit([t EXCEPT !.lpc = "data", !.li = @ + 1], t.data[t.li + 1])
                ELSE [t EXCEPT !.lpc = "stream"])
    /\ lastKill' = 0
    /\ UNCHANGED <<now, lastRun, runIntervalMS, platform, all, calls, config>>

\* line 161: listen() yields a chunk of the stream (as ListenYield)
PlaylistYield(c) ==
    /\ c \in 1..Len(terms)
    /\ terms[c].lpc = "stream"
    /\ terms[c].rbuf # <<>>
    /\ LET b == Head(terms[c].rbuf)
           t == AtEOF([terms[c] EXCEPT !.rbuf = Tail(@)])
       IN  PlaylistStep(c, Emit(DataListener(t, b), b))
    /\ lastKill' = 0
    /\ UNCHANGED <<now, lastRun, runIntervalMS, platform, all, calls, config>>

\* lines 161, 179-181: listen() is over (as ListenEnd): kill() and the
\* return of ok: false, or what listen() threw leaves getPlaylistInfo
PlaylistEnd(c) ==
    /\ c \in 1..Len(terms)
    /\ terms[c].lpc = "stream"
    /\ terms[c].rbuf = <<>>
    /\ terms[c].sout # "open"
    /\ LET t == EndOfStream(terms[c])
           r == IF t.lpc = "threw"
                THEN [term |-> t, ret |-> <<Rejected(t.thrown)>>]
                ELSE PlaylistFinish(t, Resolved(FALSE, ""))
       IN  /\ terms' = SetTerm(c, r.term)
           /\ fn' = [op |-> "getPlaylistInfo", arg |-> c, out |-> r.ret[1]]
    /\ lastKill' = 0
    /\ UNCHANGED <<now, lastRun, runIntervalMS, platform, all, calls, config>>

\* One call of getPlaylistInfo from its Terminal.new on (the attempts capped
\* at MaxTerms)
NextPlaylist ==
    \/ \E o \in {"ok", "enoent"} :
          /\ calls = <<>>
          /\ New(Min(DefaultTryCount, MaxTerms), DefaultRetryIntervalMS,
                 DefaultIntermissionMS, "null", o)
    \/ \E o \in {"ok", "enoent"} : RetryWake(1, o)
    \/ SettleTimeout(1)
    \/ \E c \in 1..MaxTerms : ProcError(c)
    \/ \E c \in 1..MaxTerms : StdoutError(c)
    \/ \E c \in 1..MaxTerms, b \in PlaylistChunks : ProcWrite(c, b)
    \/ \E c \in 1..MaxTerms : ProcExit(c, "0")
    \/ \E c \in 1..MaxTerms : ProcClose(c)
    \/ PlaylistNotSpawned
    \/ \E c \in 1..MaxTerms : PlaylistPull(c)
    \/ \E c \in 1..MaxTerms : PlaylistYield(c)
    \/ \E c \in 1..MaxTerms : PlaylistEnd(c)
    \/ \E d \in Delays : Tick(d)

SpecPlaylist == Init /\ [][NextPlaylist]_vars

\* C38: when getPlaylistInfo returns with a controller obtained, it has
\* called kill() on it, whether it found a chunk or listen() ended; it
\* answers ok: true with the document of the first chunk listen() yielded
\* that parses to a truthy value, and ok: false when there is none or no
\* controller was obtained.
C38_PlaylistKillsAndAnswers ==
    (fn.op = "getPlaylistInfo" /\ fn.out.tag = "resolved") =>
        IF fn.arg = NotFound THEN ~fn.out.ok
        ELSE LET t == terms[fn.arg]
                 good == {i \in 1..Len(t.consumed) : ParsesTruthy(t.consumed[i])}
             IN  /\ t.kills > 0
                 /\ IF good = {} THEN ~fn.out.ok
                    ELSE /\ fn.out.ok
                         /\ fn.out.data = JSONParse(t.consumed[
                               CHOOSE i \in good : \A j \in good : i <= j])

C38_Witness ==
    /\ fn.op = "getPlaylistInfo" /\ fn.out.tag = "resolved"
    /\ fn.arg # NotFound /\ fn.out.ok
    /\ Len(terms[fn.arg].consumed) = 2
    /\ terms[fn.arg].kills > 0 /\ terms[fn.arg].killReq > 0

-----------------------------------------------------------------------------
(* getInfo over invoke (yt-dlp-helper.ts lines 78-107 and 269-314), from   *)
(* Terminal.new on                                                         *)

\* what yt-dlp --dump-json writes: the document in one chunk or in two, or
\* a line of log
InfoChunks == {"b:json", "b:jsonhead", "b:jsontail", "b:other"}

\* lines 303-307: data += text over the texts listen() yielded
RECURSIVE Joined(_)
Joined(texts) == IF texts = <<>> THEN "" ELSE Head(texts) \o Joined(Tail(texts))

\* lines 95-106: getInfo on what invoke answered with ok: true
getInfoParse(data) ==
    LET parsed == JSONParse(IF data # "" THEN data ELSE "")
    IN  IF parsed = "SyntaxError" THEN Rejected("SyntaxError")
        ELSE Resolved(TRUE, parsed)

\* lines 297-301, 99-102: invokeInternal answered null
InfoNotSpawned ==
    /\ fn.op = "none"
    /\ Len(calls) = 1
    /\ calls[1].pc = "done" /\ calls[1].result = NotFound
    /\ fn' = [op |-> "getInfo", arg |-> NotFound, out |-> Resolved(FALSE, "")]
    /\ lastKill' = 0
    /\ UNCHANGED <<now, lastRun, runIntervalMS, platform, all, calls, terms, config>>

\* lines 305-313, 95-106: listen() is over (as ListenEnd): invoke answers
\* the joined text and getInfo parses it; what listen() threw leaves both
InfoEnd(c) ==
    /\ c \in 1..Len(terms)
    /\ terms[c].lpc = "stream"
    /\ terms[c].rbuf = <<>>
    /\ terms[c].sout # "open"
    /\ terms' = SetTerm(c, EndOfStream(terms[c]))
    /\ fn' = [op |-> "getInfo", arg |-> c,
              out |-> IF terms'[c].lpc = "threw"
                      THEN Rejected(terms'[c].thrown)
                      ELSE getInfoParse(Joined(terms'[c].consumed))]
    /\ lastKill' = 0
    /\ UNCHANGED <<now, lastRun, runIntervalMS, platform, all, calls, config>>

\* One call of getInfo from its Terminal.new on (the attempts capped at
\* MaxTerms)
NextInfo ==
    \/ \E o \in {"ok", "enoent"} :
          /\ calls = <<>>
          /\ New(Min(DefaultTryCount, MaxTerms), DefaultRetryIntervalMS,
                 DefaultIntermissionMS, "null", o)
    \/ \E o \in {"ok", "enoent"} : RetryWake(1, o)
    \/ SettleTimeout(1)
    \/ \E c \in 1..MaxTerms : ProcError(c)
    \/ \E c \in 1..MaxTerms, b \in InfoChunks : ProcWrite(c, b)
    \/ \E c \in 1..MaxTerms, how \in {"0", "1"} : ProcExit(c, how)
    \/ \E c \in 1..MaxTerms : ProcClose(c)
    \/ InfoNotSpawned
    \/ \E c \in 1..MaxTerms : ListenPull(c)
    \/ \E c \in 1..MaxTerms : ListenYield(c)
    \/ \E c \in 1..MaxTerms : InfoEnd(c)
    \/ \E d \in Delays : Tick(d)

SpecInfo == Init /\ [][NextInfo]_vars

\* C39: getInfo never rejects; it answers ok: false when no controller was
\* obtained and when the process wrote nothing or something that is not a
\* JSON document, and ok: true with the parsed document otherwise.
C39_GetInfoAlwaysResolves ==
    fn.op = "getInfo" =>
        /\ fn.out.tag = "resolved"
        /\ IF fn.arg = NotFound THEN ~fn.out.ok
           ELSE LET doc == JSONParse(Joined(DecodeAll(terms[fn.arg].emitted)))
                IN  IF doc = "SyntaxError" THEN ~fn.out.ok
                    ELSE fn.out.ok /\ fn.out.data = doc

-----------------------------------------------------------------------------
(* linuxPatch followed by the launch of yt-dlp, as download, invoke and    *)
(* getPlaylistInfo run them (utils.ts linuxPatch; yt-dlp-helper.ts lines   *)
(* 237-239, 288-290, 144-146).  On linux the first call of Terminal.new is *)
(* the one for chmod and the second the one for yt-dlp; elsewhere there is *)
(* only the one for yt-dlp.                                                *)

\* attempts of the chmod call, leaving one controller for yt-dlp
PatchTryCount == Min(DefaultTryCount, MaxTerms - 1)

\* a linuxPatch that does not wait for the process
linuxPatchOverNoWait(k) == calls[k].pc = "done"

\* linuxPatch has returned: Terminal.new answered null, or the wait() on
\* the controller it answered has resolved
linuxPatchOver(k) ==
    /\ calls[k].pc = "done"
    /\ IF calls[k].result = NotFound
       THEN TRUE
       ELSE terms[calls[k].result].waitSeen # {}

\* linuxPatch: Terminal.new({command: 'chmod', args: ['+x', path]})
PatchStart(o) ==
    /\ platform = "linux"
    /\ calls = <<>>
    /\ New(PatchTryCount, DefaultRetryIntervalMS, DefaultIntermissionMS, "null", o)

\* linuxPatch: await terminal.wait()
PatchWait ==
    /\ platform = "linux"
    /\ Len(calls) = 1
    /\ calls[1].pc = "done" /\ calls[1].result # NotFound
    /\ terms[calls[1].result].waitCalls = 0
    /\ Wait(calls[1].result)

\* invokeInternal: Terminal.new for yt-dlp, once linuxPatch has returned
YtdlpStart(o) ==
    /\ IF platform = "linux"
       THEN Len(calls) = 1 /\ linuxPatchOver(1)
       ELSE calls = <<>>
    /\ New(1, DefaultRetryIntervalMS, DefaultIntermissionMS, "null", o)

\* the gate of neither call sleeps: lastRun is 0 at the chmod call, and that
\* call takes retryIntervalMS or intermissionMS, each no less than
\* runIntervalMS, before the call for yt-dlp reads lastRun
NextPatch ==
    \/ \E o \in {"ok", "enoent"} : PatchStart(o)
    \/ PatchWait
    \/ \E o \in {"ok", "enoent"} : YtdlpStart(o)
    \/ \E k \in 1..MaxCalls, o \in {"ok", "enoent"} : RetryWake(k, o)
    \/ \E k \in 1..MaxCalls : SettleTimeout(k)
    \/ \E c \in 1..MaxTerms : ProcError(c)
    \/ \E c \in 1..MaxTerms, how \in {"0", "1"} : ProcExit(c, how)
    \/ \E c \in 1..MaxTerms : ProcClose(c)
    \/ \E d \in Delays : Tick(d)

SpecPatch == Init /\ [][NextPatch]_vars

\* C40: on linux, when Terminal.new is entered for yt-dlp, the chmod call
\* is over and, if it answered a controller, the exit of that process has
\* been observed; when it answered null the launch of yt-dlp can go on.
C40_PatchBeforeLaunch ==
    platform = "linux" =>
        /\ Len(calls) >= 2 =>
              /\ calls[1].pc = "done"
              /\ calls[2].enter >= calls[1].starts[Len(calls[1].starts)]
              /\ calls[1].result # NotFound =>
                    LET t == terms[calls[1].result]
                    IN  /\ t.pstate = "closed" /\ ~t.running
                        /\ t.exitCode # "undefined"
                        /\ t.waiting = 0
        /\ (/\ Len(calls) = 1 /\ calls[1].pc = "done"
            /\ calls[1].result = NotFound) =>
              ENABLED (\E o \in {"ok", "enoent"} : YtdlpStart(o))

C40_Witness ==
    /\ platform = "linux" /\ Len(calls) = 2
    /\ calls[1].result # NotFound
    /\ \E o \in terms[calls[1].result].waitSeen : o.suspended
    /\ calls[2].starts # <<>>

====
